---- MODULE Spec2Model ----
(***************************************************************************)
(* KiwoomData: the sliding window extractor                                *)
(* (kiwoomdata/vector/sliding_window.py), the vector embedder / index      *)
(* (kiwoomdata/vector/embedding.py), the rate limiter                      *)
(* (kiwoomdata/collector/rate_limiter.py) and the Parquet exporter         *)
(* (kiwoomdata/database/exporter.py).                                      *)
(*                                                                         *)
(* SpecWin   one SlidingWindowExtractor and one run of the generator       *)
(*           extract_windows over an arbitrary DataFrame.                  *)
(* SpecModel two VectorEmbedder objects sharing a file system: train_pca,  *)
(*           save_pca_model, load_pca_model, embed_vector.                 *)
(* SpecIndex one VectorEmbedder's in-memory index: insert_vector,          *)
(*           search_similar, clear_vectors.                                *)
(* SpecStock one call of extract_windows_per_stock on a frame of two       *)
(*           stock codes.                                                  *)
(* SpecConc  search_similar on one thread interleaved with insert_vector   *)
(*           calls on two other threads.                                   *)
(* SpecEmbedder  one VectorEmbedder, all its operations, inserting and     *)
(*           searching for what embed_vector returns.                      *)
(* SpecSwap  embed_vector on one thread interleaved with train_pca or      *)
(*           load_pca_model on another.                                    *)
(* SpecLimiter  one RateLimiter threaded through its calls while the       *)
(*           clock advances; SpecLimiterFair adds that the caller keeps    *)
(*           running and the clock keeps advancing.                        *)
(* SpecExport  export_from_dataframe calls on one ParquetExporter.         *)
(***************************************************************************)
EXTENDS Integers, Sequences, FiniteSets, TLC

VARIABLES
    \* ---- SlidingWindowExtractor and the running generator
    cfg,        \* self.config: [size, stride, interval_seconds]
    df,         \* the DataFrame passed to extract_windows (rows in caller order)
    sdf,        \* the local df after df.sort("timestamp")
    idx,        \* the loop variable i
    out,        \* windows yielded so far: <<[start, rows]>>
    wpc,        \* "created" | "loop" | "done" | "error"
    \* ---- one call of extract_windows_per_stock on df
    stock_codes,      \* the list df["stock_code"].unique().to_list()
    spos,             \* how many of stock_codes the for loop has taken
    windows_by_stock, \* the dict, as the list of its items in key order
    spc,              \* "created" | "loop" | "done" | "error"
    \* ---- VectorEmbedder objects
    use_pca,      \* [Embedders -> BOOLEAN]          self.use_pca
    n_components, \* [Embedders -> Nat]              self.n_components
    pca_model,    \* [Embedders -> model]            self.pca_model
    vectors,      \* [Embedders -> Seq(entry)]       self.vectors
    files,        \* [Paths -> blob]                 the file system
    saved,        \* history: what each path's last save_pca_model call saw
    trained_ok,   \* history: a train_pca / load_pca_model call has succeeded
    inserts,      \* history: the insert_vector calls since construction / the last clear_vectors
    search_frame, \* the locals of the search_similar call a reader thread is running
    insert_frame, \* [Writers -> the locals of the insert_vector call the thread is running]
    replace_frame, \* the locals of the train_pca / load_pca_model call a thread is running
    embed_frame,  \* the locals of the embed_vector call another thread is running
    \* ---- RateLimiter
    config,          \* self.config: [max_requests_per_second, window_size_ms]
    recent_requests, \* self.recent_requests of the limiter the caller holds, each
                     \* timestamp in ms relative to the present (t - now <= 0)
    result,          \* outcome of the last RateLimiter call
    wait_frame,      \* the locals of the running wait_and_request call
    approved,        \* history: timestamps of the approvals of the last window
    \* ---- ParquetExporter
    parquet,      \* [Years -> the rows of year=<y>/<timeframe>.parquet, or no file]
    exported,     \* history: [Years -> the (timestamp, stock_code) keys exported]
    ret           \* outcome of the last call

stockVars == <<stock_codes, spos, windows_by_stock, spc>>
winVars == <<cfg, df, sdf, idx, out, wpc, stock_codes, spos, windows_by_stock, spc>>
concVars == <<search_frame, insert_frame>>
modelVars == <<use_pca, n_components, pca_model, vectors, files, saved, trained_ok,
              inserts, ret>>
swapVars == <<replace_frame, embed_frame>>
limVars == <<config, recent_requests, result, wait_frame, approved>>
expVars == <<parquet, exported>>
extVars == <<replace_frame, embed_frame, config, recent_requests, result, wait_frame,
             approved, parquet, exported>>
embVars == <<use_pca, n_components, pca_model, vectors, files, saved, trained_ok,
            inserts, search_frame, insert_frame, ret,
            replace_frame, embed_frame, config, recent_requests, result, wait_frame,
            approved, parquet, exported>>
vars == <<cfg, df, sdf, idx, out, wpc, stock_codes, spos, windows_by_stock, spc,
          use_pca, n_components, pca_model, vectors, files, saved, trained_ok,
          inserts, search_frame, insert_frame, ret,
          replace_frame, embed_frame, config, recent_requests, result, wait_frame,
          approved, parquet, exported>>

Abs(x) == IF x < 0 THEN -x ELSE x
Min(a, b) == IF a < b THEN a ELSE b
Max(a, b) == IF a < b THEN b ELSE a

(***************************************************************************)
(* Sliding window extractor                                                *)
(***************************************************************************)

\* ---- bounds of the explored inputs
MaxLen == 3       \* rows in the DataFrame
MaxTick == 3      \* timestamps: the seconds 0 .. MaxTick, 500 ms, and 2 * MaxTick s
MaxSize == 3      \* config.size ranges over 0 .. MaxSize
MaxStride == 2    \* config.stride ranges over -1 .. MaxStride

\* ---- program constants
ToleranceMs == 1000
MsPerSecond == 1000

WinStocks == {"A"}
IntervalSeconds == {1, 2}
Timestamps ==
    {k * MsPerSecond : k \in 0..MaxTick} \cup {MsPerSecond \div 2, 2 * MaxTick * MsPerSecond}
Rows == [stock_code : WinStocks, timestamp : Timestamps]
Series == UNION {[1..n -> Rows] : n \in 0..MaxLen}

\* WindowConfig is a plain frozen dataclass: whatever integers the caller passes
Configs == [size : 0..MaxSize, stride : (-1)..MaxStride, interval_seconds : IntervalSeconds]

\* what the data model calls a valid configuration
ValidConfig(c) == c.size >= 1 /\ c.stride >= 1

\* SlidingWindowExtractor.__init__: self.expected_diff_ms
expected_diff_ms(c) == (c.size - 1) * c.interval_seconds * MsPerSecond

\* df.sort("timestamp"): rows of equal timestamp may come out in any order
IsSortedByTimestamp(s) ==
    \A i \in 1..(Len(s) - 1) : s[i].timestamp <= s[i + 1].timestamp

Occurrences(s, r) == Cardinality({i \in 1..Len(s) : s[i] = r})

\* df.sort("timestamp"): every arrangement of the rows that is ordered by
\* timestamp
SortByTimestampKeepingOrder(d) == {d}
SortByTimestamp(d) ==
    {s \in [1..Len(d) -> {d[i] : i \in 1..Len(d)}] :
        /\ IsSortedByTimestamp(s)
        /\ \A r \in {d[i] : i \in 1..Len(d)} : Occurrences(s, r) = Occurrences(d, r)}

\* polars DataFrame.slice(offset, length) for length >= 0; a negative offset
\* counts from the end, and both ends are clamped to the frame
Slice(d, offset, length) ==
    LET n     == Len(d)
        start == IF offset < 0 THEN offset + n ELSE offset
        lo    == Max(0, Min(n, start))
        hi    == Max(0, Min(n, start + length))
    IN  IF hi <= lo THEN <<>> ELSE [k \in 1..(hi - lo) |-> d[lo + k]]

\* window_size = self.config.size
LocalWindowSizeOffByOne(c) == c.size - 1
LocalWindowSize(c) == c.size

\* stop of range(0, len(df) - window_size + 1, stride)
RangeStopNoPlusOne(d, c) == Len(d) - LocalWindowSize(c)
RangeStop(d, c) == Len(d) - LocalWindowSize(c) + 1

\* membership of i in range(0, stop, step), step # 0
InRange(i, stop, step) == IF step > 0 THEN i < stop ELSE i > stop

\* the loop variable after one iteration
NextIndexByOne(i, c) == i + 1
NextIndex(i, c) == i + c.stride

\* abs(actual_diff_ms - self.expected_diff_ms) <= 1000
IsContinuousNoAbs(actual_diff_ms, c) == actual_diff_ms - expected_diff_ms(c) <= ToleranceMs
IsContinuous(actual_diff_ms, c) == Abs(actual_diff_ms - expected_diff_ms(c)) <= ToleranceMs

\* one iteration of the for loop on the sorted frame d at index i:
\* "continue" (size check), "raise" (window["timestamp"][0] on an empty
\* window is an IndexError), "yield" or "skip" (continuity check)
LoopBody(d, i, c) ==
    LET window == Slice(d, i, LocalWindowSize(c))
    IN  IF Len(window) # LocalWindowSize(c)
        THEN [kind |-> "continue", window |-> window]
        ELSE IF Len(window) = 0
        THEN [kind |-> "raise", window |-> window]
        ELSE IF IsContinuous(window[Len(window)].timestamp - window[1].timestamp, c)
        THEN [kind |-> "yield", window |-> window]
        ELSE [kind |-> "skip", window |-> window]

\* first next() on the generator: the empty-frame return, the sort, and the
\* construction of the range (range() with step 0 raises ValueError)
ExtractStart ==
    /\ wpc = "created"
    /\ IF Len(df) = 0
       THEN /\ wpc' = "done"
            /\ UNCHANGED <<sdf, idx>>
       ELSE /\ sdf' \in SortByTimestamp(df)
            /\ idx' = 0
            /\ wpc' = IF cfg.stride = 0 THEN "error" ELSE "loop"
    /\ UNCHANGED <<cfg, df, out>>
    /\ UNCHANGED stockVars
    /\ UNCHANGED embVars

\* one turn of the for loop, or its exhaustion
ExtractStep ==
    /\ wpc = "loop"
    /\ IF ~InRange(idx, RangeStop(sdf, cfg), cfg.stride)
       THEN /\ wpc' = "done"
            /\ UNCHANGED <<idx, out>>
       ELSE LET b == LoopBody(sdf, idx, cfg)
            IN  /\ wpc' = IF b.kind = "raise" THEN "error" ELSE "loop"
                /\ out' = IF b.kind = "yield"
                          THEN Append(out, [start |-> idx, rows |-> b.window])
                          ELSE out
                /\ idx' = IF b.kind = "raise" THEN idx ELSE NextIndex(idx, cfg)
    /\ UNCHANGED <<cfg, df, sdf>>
    /\ UNCHANGED stockVars
    /\ UNCHANGED embVars

WinNext == ExtractStart \/ ExtractStep

(***************************************************************************)
(* Vector embedder: values                                                 *)
(***************************************************************************)

\* ---- program constants
RAW_DIM == 600
DefaultComponents == 64

Embedders == {1, 2}
\* pca.pkl is where models are saved; notes.txt exists and is no pickle;
\* missing.pkl never exists
Paths == {"pca.pkl", "notes.txt", "missing.pkl"}
SavePaths == {"pca.pkl"}

\* A numeric array is [len, vals, nan, inf]: the array of length len whose
\* leading elements are vals and whose other elements are 0; nan / inf say
\* that some element is NaN / +-Inf (np.isnan(a).any(), np.isinf(a).any()).
RawLens == {59, RAW_DIM}
RawVals == {<<1, 0>>, <<0, 2>>}
RawVectors ==
    {v \in [len : RawLens, vals : RawVals, nan : BOOLEAN, inf : BOOLEAN] : ~(v.nan /\ v.inf)}
ValidRawVectors == {v \in RawVectors : v.len = RAW_DIM /\ ~v.nan /\ ~v.inf}

\* A training matrix is [n_samples, row_len, mean, swap]: its shape, its
\* column means and whether its second leading column carries more variance
\* than the first (which orders the principal axes).
SampleCounts == {1, 100}
Fits == {[mean |-> <<0, 0>>, swap |-> FALSE], [mean |-> <<1, 0>>, swap |-> TRUE]}
TrainingSets ==
    [n_samples : SampleCounts, row_len : {RAW_DIM}, fit : Fits]
    \cup {[n_samples |-> 100, row_len |-> 59, fit |-> [mean |-> <<0, 0>>, swap |-> FALSE]]}

ComponentChoices == {2, DefaultComponents}

\* self.pca_model: None, PCA(n_components) before fit, or a fitted PCA
NoModel == [kind |-> "None"]
UnfittedPCA(k) == [kind |-> "PCA", fitted |-> FALSE, n_components |-> k,
                   mean |-> <<0, 0>>, swap |-> FALSE]
FittedPCA(k, X) == [kind |-> "PCA", fitted |-> TRUE, n_components |-> k,
                    mean |-> X.fit.mean, swap |-> X.fit.swap]

\* PCA.fit raises ValueError unless n_components <= min(n_samples, n_features)
FitAccepts(k, X) == k <= Min(X.n_samples, X.row_len)

\* PCA.transform of a finite row: centre by the mean, coordinates along the
\* principal axes (here the two leading coordinate axes, in variance order)
Transform(m, v) ==
    LET c1 == v.vals[1] - m.mean[1]
        c2 == v.vals[2] - m.mean[2]
    IN  [len |-> m.n_components,
         vals |-> IF m.swap THEN <<c2, c1>> ELSE <<c1, c2>>,
         nan |-> FALSE, inf |-> FALSE]

\* pickle.dump / pickle.load of the model object: the file holds the
\* attribute values in a fixed layout, and load rebuilds the object from them
PickleDropMean(m) ==
    <<m.n_components, IF m.fitted THEN 1 ELSE 0, 0, 0, IF m.swap THEN 1 ELSE 0>>
Pickle(m) ==
    <<m.n_components, IF m.fitted THEN 1 ELSE 0, m.mean[1], m.mean[2],
      IF m.swap THEN 1 ELSE 0>>
Unpicklable(bytes) == Len(bytes) = 5
Unpickle(bytes) ==
    [kind |-> "PCA", fitted |-> bytes[2] = 1, n_components |-> bytes[1],
     mean |-> <<bytes[3], bytes[4]>>, swap |-> bytes[5] = 1]

NoFile == [exists |-> FALSE, bytes |-> <<>>]
TextFile == [exists |-> TRUE, bytes |-> <<0>>]
NoSave == [model |-> NoModel, use_pca |-> FALSE, by |-> 0]
NoCall == [op |-> "none", e |-> 0, status |-> "none"]

\* threads that call insert_vector, and a thread that runs no call
Writers == {1, 2}
IdleSearch == [pc |-> "idle"]
IdleInsert == [pc |-> "idle"]
IdleReplace == [pc |-> "idle"]
IdleEmbed == [pc |-> "idle"]

\* a limiter nobody calls, and an export directory without files
IdleConfig == [max_requests_per_second |-> 1, window_size_ms |-> 1]
IdleWait == [pc |-> "idle"]
Years == {2023, 2024}
NoParquet == [exists |-> FALSE, rows |-> <<>>]

\* embed_vector as a function of the two fields it reads
EmbedResultNanAfterModel(flag, m, v) ==
    IF v.len # RAW_DIM THEN [status |-> "DimensionMismatch", value |-> v]
    ELSE IF flag /\ m.kind = "None" THEN [status |-> "ModelNotTrained", value |-> v]
    ELSE IF v.nan THEN [status |-> "DataQuality", value |-> v]
    ELSE IF flag /\ ~m.fitted THEN [status |-> "NotFitted", value |-> v]
    ELSE IF flag /\ v.inf THEN [status |-> "NonFinite", value |-> v]
    ELSE IF flag THEN [status |-> "ok", value |-> Transform(m, v)]
    ELSE [status |-> "ok", value |-> v]
EmbedResult(flag, m, v) ==
    IF v.len # RAW_DIM THEN [status |-> "DimensionMismatch", value |-> v]
    ELSE IF v.nan THEN [status |-> "DataQuality", value |-> v]
    ELSE IF flag
    THEN IF m.kind = "None" THEN [status |-> "ModelNotTrained", value |-> v]
         \* sklearn: check_is_fitted raises NotFittedError, then the finite
         \* check of the input raises ValueError
         ELSE IF ~m.fitted THEN [status |-> "NotFitted", value |-> v]
         ELSE IF v.inf THEN [status |-> "NonFinite", value |-> v]
         ELSE [status |-> "ok", value |-> Transform(m, v)]
    ELSE [status |-> "ok", value |-> v]

\* a fresh extractor and the frame handed to extract_windows; the embedders
\* stay as constructed
WinInit ==
    /\ cfg \in Configs
    /\ df \in Series
    /\ sdf = <<>>
    /\ idx = 0
    /\ out = <<>>
    /\ wpc = "created"
    /\ stock_codes = <<>>
    /\ spos = 0
    /\ windows_by_stock = <<>>
    /\ spc = "created"
    /\ use_pca = [e \in Embedders |-> TRUE]
    /\ n_components = [e \in Embedders |-> DefaultComponents]
    /\ pca_model = [e \in Embedders |-> NoModel]
    /\ vectors = [e \in Embedders |-> <<>>]
    /\ files = [p \in Paths |-> NoFile]
    /\ saved = [p \in Paths |-> NoSave]
    /\ trained_ok = [e \in Embedders |-> FALSE]
    /\ inserts = [e \in Embedders |-> <<>>]
    /\ search_frame = IdleSearch
    /\ insert_frame = [w \in Writers |-> IdleInsert]
    /\ replace_frame = IdleReplace
    /\ embed_frame = IdleEmbed
    /\ config = IdleConfig
    /\ recent_requests = <<>>
    /\ result = NoCall
    /\ wait_frame = IdleWait
    /\ approved = <<>>
    /\ parquet = [y \in Years |-> NoParquet]
    /\ exported = [y \in Years |-> {}]
    /\ ret = NoCall

SpecWin == WinInit /\ [][WinNext]_vars

(***************************************************************************)
(* Sliding window extractor: the callers of extract_windows                *)
(***************************************************************************)

\* the for loop of extract_windows from index i on, run to its end on the
\* sorted frame d: the windows yielded, or the exception that ends it
RECURSIVE RunLoop(_, _, _, _)
RunLoop(d, i, c, yielded) ==
    IF ~InRange(i, RangeStop(d, c), c.stride)
    THEN [status |-> "ok", windows |-> yielded]
    ELSE LET b == LoopBody(d, i, c)
         IN  IF b.kind = "raise"
             THEN [status |-> "IndexError", windows |-> yielded]
             ELSE RunLoop(d, NextIndex(i, c), c,
                          IF b.kind = "yield"
                          THEN Append(yielded, [start |-> i, rows |-> b.window])
                          ELSE yielded)

\* list(self.extract_windows(d)): one outcome per arrangement the sort may
\* give rows of equal timestamp
ListExtractWindows(d, c) ==
    IF Len(d) = 0 THEN {[status |-> "ok", windows |-> <<>>]}
    ELSE IF c.stride = 0 THEN {[status |-> "ValueError", windows |-> <<>>]}
    ELSE {RunLoop(s, 0, c, <<>>) : s \in SortByTimestamp(d)}

\* count_windows: sum(1 for _ in self.extract_windows(df))
count_windows(d, c) ==
    {[status |-> o.status, value |-> Len(o.windows)] : o \in ListExtractWindows(d, c)}

\* a // b of Python integers, b # 0: the floor of the quotient
FloorDiv(a, b) == IF b > 0 THEN a \div b ELSE (-a) \div (-b)

\* get_window_stats; (total - size) // 0 is a ZeroDivisionError
get_window_stats_floor_only(d, c) ==
    IF c.stride = 0
    THEN [status |-> "ZeroDivisionError", total_candles |-> Len(d),
          max_possible_windows |-> 0, window_size |-> c.size, stride |-> c.stride]
    ELSE [status |-> "ok", total_candles |-> Len(d),
          max_possible_windows |-> FloorDiv(Len(d) - c.size, c.stride),
          window_size |-> c.size, stride |-> c.stride]
get_window_stats(d, c) ==
    IF c.stride = 0
    THEN [status |-> "ZeroDivisionError", total_candles |-> Len(d),
          max_possible_windows |-> 0, window_size |-> c.size, stride |-> c.stride]
    ELSE [status |-> "ok", total_candles |-> Len(d),
          max_possible_windows |-> Max(0, FloorDiv(Len(d) - c.size, c.stride) + 1),
          window_size |-> c.size, stride |-> c.stride]

\* ---- bounds of the explored inputs
MaxRows == 3      \* rows in the frame of several stocks

StockCodes == {"A", "B"}
StockTimestamps == {0, MsPerSecond, 5 * MsPerSecond}
StockRows == [stock_code : StockCodes, timestamp : StockTimestamps]
StockFrames == UNION {[1..n -> StockRows] : n \in 0..MaxRows}
StockConfigs == [size : 0..2, stride : 1..2, interval_seconds : {1}]

\* df["stock_code"].unique().to_list(): each code once, in no promised order
UniqueLists(d) ==
    LET codes == {d[i].stock_code : i \in 1..Len(d)}
    IN  {l \in [1..Cardinality(codes) -> codes] : \A a, b \in DOMAIN l : l[a] = l[b] => a = b}

\* df.filter(pl.col("stock_code") == stock_code): the rows of one stock, in order
FilterNothing(d, stock_code) == d
RECURSIVE Filter(_, _)
Filter(d, stock_code) ==
    IF d = <<>> THEN <<>>
    ELSE IF Head(d).stock_code = stock_code
    THEN <<Head(d)>> \o Filter(Tail(d), stock_code)
    ELSE Filter(Tail(d), stock_code)

StockInit ==
    /\ cfg \in StockConfigs
    /\ df \in StockFrames
    /\ sdf = <<>>
    /\ idx = 0
    /\ out = <<>>
    /\ wpc = "created"
    /\ stock_codes = <<>>
    /\ spos = 0
    /\ windows_by_stock = <<>>
    /\ spc = "created"
    /\ use_pca = [e \in Embedders |-> TRUE]
    /\ n_components = [e \in Embedders |-> DefaultComponents]
    /\ pca_model = [e \in Embedders |-> NoModel]
    /\ vectors = [e \in Embedders |-> <<>>]
    /\ files = [p \in Paths |-> NoFile]
    /\ saved = [p \in Paths |-> NoSave]
    /\ trained_ok = [e \in Embedders |-> FALSE]
    /\ inserts = [e \in Embedders |-> <<>>]
    /\ search_frame = IdleSearch
    /\ insert_frame = [w \in Writers |-> IdleInsert]
    /\ replace_frame = IdleReplace
    /\ embed_frame = IdleEmbed
    /\ config = IdleConfig
    /\ recent_requests = <<>>
    /\ result = NoCall
    /\ wait_frame = IdleWait
    /\ approved = <<>>
    /\ parquet = [y \in Years |-> NoParquet]
    /\ exported = [y \in Years |-> {}]
    /\ ret = NoCall

\* windows_by_stock = {} and the list of unique stock codes
PerStockStart ==
    /\ spc = "created"
    /\ stock_codes' \in UniqueLists(df)
    /\ spos' = 0
    /\ windows_by_stock' = <<>>
    /\ spc' = "loop"
    /\ UNCHANGED <<cfg, df, sdf, idx, out, wpc>>
    /\ UNCHANGED embVars

\* one turn of the for loop over stock_codes: filter, list the windows, and
\* store them under the code when there are any; an exception of
\* extract_windows ends the call
PerStockStep ==
    /\ spc = "loop"
    /\ spos < Len(stock_codes)
    /\ LET stock_code == stock_codes[spos + 1]
           stock_df == Filter(df, stock_code)
       IN  \E o \in ListExtractWindows(stock_df, cfg) :
              IF o.status # "ok"
              THEN /\ spc' = "error"
                   /\ UNCHANGED <<spos, windows_by_stock>>
              ELSE /\ spos' = spos + 1
                   /\ windows_by_stock' =
                         IF o.windows # <<>>
                         THEN Append(windows_by_stock,
                                     [stock_code |-> stock_code, windows |-> o.windows])
                         ELSE windows_by_stock
                   /\ spc' = "loop"
    /\ UNCHANGED <<cfg, df, sdf, idx, out, wpc, stock_codes>>
    /\ UNCHANGED embVars

\* return windows_by_stock
PerStockReturn ==
    /\ spc = "loop"
    /\ spos = Len(stock_codes)
    /\ spc' = "done"
    /\ UNCHANGED <<cfg, df, sdf, idx, out, wpc, stock_codes, spos, windows_by_stock>>
    /\ UNCHANGED embVars

StockNext == PerStockStart \/ PerStockStep \/ PerStockReturn

SpecStock == StockInit /\ [][StockNext]_vars

(***************************************************************************)
(* Vector embedder: the projection model life cycle                        *)
(***************************************************************************)

\* VectorEmbedder(use_pca, n_components), twice, and a directory holding one
\* file that is not a pickle
ModelInit ==
    /\ use_pca \in [Embedders -> BOOLEAN]
    /\ n_components \in {f \in [Embedders -> ComponentChoices] : f[1] >= f[2]}
    /\ pca_model = [e \in Embedders |-> NoModel]
    /\ vectors = [e \in Embedders |-> <<>>]
    /\ files = [p \in Paths |-> IF p = "notes.txt" THEN TextFile ELSE NoFile]
    /\ saved = [p \in Paths |-> NoSave]
    /\ trained_ok = [e \in Embedders |-> FALSE]
    /\ inserts = [e \in Embedders |-> <<>>]
    /\ search_frame = IdleSearch
    /\ insert_frame = [w \in Writers |-> IdleInsert]
    /\ replace_frame = IdleReplace
    /\ embed_frame = IdleEmbed
    /\ config = IdleConfig
    /\ recent_requests = <<>>
    /\ result = NoCall
    /\ wait_frame = IdleWait
    /\ approved = <<>>
    /\ parquet = [y \in Years |-> NoParquet]
    /\ exported = [y \in Years |-> {}]
    /\ ret = NoCall
    /\ cfg = [size |-> 1, stride |-> 1, interval_seconds |-> 1]
    /\ df = <<>>
    /\ sdf = <<>>
    /\ idx = 0
    /\ out = <<>>
    /\ wpc = "created"
    /\ stock_codes = <<>>
    /\ spos = 0
    /\ windows_by_stock = <<>>
    /\ spc = "created"

\* train_pca: the dimension check, then self.pca_model = PCA(...), then fit
TrainOutcomeAssignFirst(e, X) ==
    IF X.row_len # RAW_DIM
    THEN [status |-> "DimensionMismatch", model |-> UnfittedPCA(n_components[e])]
    ELSE IF ~FitAccepts(n_components[e], X)
    THEN [status |-> "FitError", model |-> UnfittedPCA(n_components[e])]
    ELSE [status |-> "ok", model |-> FittedPCA(n_components[e], X)]
TrainOutcome(e, X) ==
    IF X.row_len # RAW_DIM
    THEN [status |-> "DimensionMismatch", model |-> pca_model[e]]
    ELSE IF ~FitAccepts(n_components[e], X)
    THEN [status |-> "FitError", model |-> UnfittedPCA(n_components[e])]
    ELSE [status |-> "ok", model |-> FittedPCA(n_components[e], X)]

train_pca(e, X) ==
    LET o == TrainOutcome(e, X)
    IN  /\ pca_model' = [pca_model EXCEPT ![e] = o.model]
        /\ trained_ok' = [trained_ok EXCEPT ![e] = @ \/ o.status = "ok"]
        /\ ret' = [op |-> "train", e |-> e, status |-> o.status, arg |-> X]
        /\ UNCHANGED <<use_pca, n_components, vectors, files, saved, inserts>>
        /\ UNCHANGED concVars
        /\ UNCHANGED extVars
        /\ UNCHANGED winVars

\* save_pca_model: refuses None, otherwise writes the pickle
save_pca_model(e, p) ==
    /\ IF pca_model[e] = NoModel
       THEN /\ ret' = [op |-> "save", e |-> e, status |-> "ModelNotTrained", arg |-> p]
            /\ UNCHANGED <<files, saved>>
       ELSE /\ files' = [files EXCEPT ![p] = [exists |-> TRUE, bytes |-> Pickle(pca_model[e])]]
            /\ saved' = [saved EXCEPT ![p] = [model |-> pca_model[e], use_pca |-> use_pca[e],
                                              by |-> e]]
            /\ ret' = [op |-> "save", e |-> e, status |-> "ok", arg |-> p]
    /\ UNCHANGED <<use_pca, n_components, pca_model, vectors, trained_ok, inserts>>
    /\ UNCHANGED concVars
    /\ UNCHANGED extVars
    /\ UNCHANGED winVars

\* load_pca_model: FileNotFoundError, or pickle.load raising, or the
\* assignment of the model followed by self.use_pca = True
load_pca_model_clearing_index(e, p) ==
    /\ IF ~files[p].exists
       THEN /\ ret' = [op |-> "load", e |-> e, status |-> "FileNotFound", arg |-> p]
            /\ UNCHANGED <<pca_model, use_pca, trained_ok>>
       ELSE IF ~Unpicklable(files[p].bytes)
       THEN /\ ret' = [op |-> "load", e |-> e, status |-> "UnpicklingError", arg |-> p]
            /\ UNCHANGED <<pca_model, use_pca, trained_ok>>
       ELSE /\ pca_model' = [pca_model EXCEPT ![e] = Unpickle(files[p].bytes)]
            /\ use_pca' = [use_pca EXCEPT ![e] = TRUE]
            /\ trained_ok' = [trained_ok EXCEPT ![e] = TRUE]
            /\ ret' = [op |-> "load", e |-> e, status |-> "ok", arg |-> p]
    /\ vectors' = [vectors EXCEPT ![e] = <<>>]
    /\ UNCHANGED <<n_components, files, saved, inserts>>
    /\ UNCHANGED concVars
    /\ UNCHANGED extVars
    /\ UNCHANGED winVars
load_pca_model(e, p) ==
    /\ IF ~files[p].exists
       THEN /\ ret' = [op |-> "load", e |-> e, status |-> "FileNotFound", arg |-> p]
            /\ UNCHANGED <<pca_model, use_pca, trained_ok>>
       ELSE IF ~Unpicklable(files[p].bytes)
       THEN /\ ret' = [op |-> "load", e |-> e, status |-> "UnpicklingError", arg |-> p]
            /\ UNCHANGED <<pca_model, use_pca, trained_ok>>
       ELSE /\ pca_model' = [pca_model EXCEPT ![e] = Unpickle(files[p].bytes)]
            /\ use_pca' = [use_pca EXCEPT ![e] = TRUE]
            /\ trained_ok' = [trained_ok EXCEPT ![e] = TRUE]
            /\ ret' = [op |-> "load", e |-> e, status |-> "ok", arg |-> p]
    /\ UNCHANGED <<n_components, vectors, files, saved, inserts>>
    /\ UNCHANGED concVars
    /\ UNCHANGED extVars
    /\ UNCHANGED winVars

embed_vector(e, v) ==
    LET r == EmbedResult(use_pca[e], pca_model[e], v)
    IN  /\ ret' = [op |-> "embed", e |-> e, status |-> r.status, arg |-> v,
                   value |-> r.value]
        /\ UNCHANGED <<use_pca, n_components, pca_model, vectors, files, saved, trained_ok,
                       inserts>>
        /\ UNCHANGED concVars
        /\ UNCHANGED extVars
        /\ UNCHANGED winVars

\* get_vector_dimension
get_vector_dimension(e) == IF use_pca[e] THEN n_components[e] ELSE RAW_DIM

ModelNext ==
    \E e \in Embedders :
        \/ \E X \in TrainingSets : train_pca(e, X)
        \/ \E p \in SavePaths : save_pca_model(e, p)
        \/ \E p \in Paths : load_pca_model(e, p)
        \/ \E v \in RawVectors : embed_vector(e, v)

SpecModel == ModelInit /\ [][ModelNext]_vars

(***************************************************************************)
(* Vector embedder: the in-memory index                                    *)
(***************************************************************************)

\* ---- bounds of the explored inputs
MaxVectors == 2   \* entries the index may hold
MaxTopK == 2      \* top_k ranges over -1 .. MaxTopK

\* An indexed array is [len, vals, div2]: the array of length len whose
\* leading elements are vals / sqrt(div2) and whose other elements are 0.
\* Arithmetic on these is exact; the code's float64 results differ from it
\* by rounding only.
IndexVals == {<<0, 0>>, <<1, 0>>, <<1, 1>>, <<-1, 0>>, <<2, 0>>}
IndexVectors ==
    [len : {DefaultComponents}, vals : IndexVals, div2 : {1}]
    \cup {[len |-> RAW_DIM, vals |-> <<1, 0>>, div2 |-> 1]}
QueryVectors ==
    {v \in IndexVectors : v.len = DefaultComponents /\ v.vals \in {<<0, 0>>, <<1, 0>>, <<1, 1>>}}
IndexStocks == {"A", "B"}
IndexTimestamps == {0}
IndexWindowSizes == {60}
TopKs == (-1)..MaxTopK
\* the top_k of the explored search calls: negative, one, and the largest
SearchTopKs == {-1, 1, MaxTopK}

\* A similarity is [num, den2], the real number num / sqrt(den2), den2 > 0
MinSimilarities == {[num |-> 0, den2 |-> 1], [num |-> 1, den2 |-> 4]}
SimGT(a, b) ==
    IF a.num >= 0 /\ b.num < 0 THEN TRUE
    ELSE IF a.num < 0 /\ b.num >= 0 THEN FALSE
    ELSE IF a.num >= 0
    THEN a.num * a.num * b.den2 > b.num * b.num * a.den2
    ELSE a.num * a.num * b.den2 < b.num * b.num * a.den2
SimGE(a, b) == ~SimGT(b, a)

SumSq(vals) == vals[1] * vals[1] + vals[2] * vals[2]

\* norm = np.linalg.norm(v); if norm > 0: v = v / norm
NormalizeSkipped(v) == v
Normalize(v) == IF SumSq(v.vals) > 0 THEN [v EXCEPT !.div2 = SumSq(v.vals)] ELSE v

\* float(np.dot(query_vector, vec)) for arrays of one length
Dot(q, v) ==
    [num |-> q.vals[1] * v.vals[1] + q.vals[2] * v.vals[2], den2 |-> q.div2 * v.div2]

\* the loop that scores every entry and keeps those passing the threshold
RECURSIVE ScoredUpToThreshold(_, _, _)
ScoredUpToThreshold(vs, q, m) ==
    IF vs = <<>> THEN <<>>
    ELSE LET h == Head(vs)
             similarity == Dot(q, h.vector)
         IN  IF SimGE(m, similarity)
             THEN <<[stock_code |-> h.stock_code, timestamp |-> h.timestamp,
                     window_size |-> h.window_size, similarity |-> similarity]>>
                  \o ScoredUpToThreshold(Tail(vs), q, m)
             ELSE ScoredUpToThreshold(Tail(vs), q, m)
RECURSIVE Scored(_, _, _)
Scored(vs, q, m) ==
    IF vs = <<>> THEN <<>>
    ELSE LET h == Head(vs)
             similarity == Dot(q, h.vector)
         IN  IF SimGE(similarity, m)
             THEN <<[stock_code |-> h.stock_code, timestamp |-> h.timestamp,
                     window_size |-> h.window_size, similarity |-> similarity]>>
                  \o Scored(Tail(vs), q, m)
             ELSE Scored(Tail(vs), q, m)

\* similarities.sort(key=lambda x: x.similarity, reverse=True): list.sort is
\* stable, and with reverse=True equal keys keep their original order
RECURSIVE InsertDescTiesReversed(_, _)
InsertDescTiesReversed(sorted, x) ==
    IF sorted = <<>> THEN <<x>>
    ELSE IF SimGE(x.similarity, Head(sorted).similarity)
    THEN <<x>> \o sorted
    ELSE <<Head(sorted)>> \o InsertDescTiesReversed(Tail(sorted), x)
RECURSIVE InsertDesc(_, _)
InsertDesc(sorted, x) ==
    IF sorted = <<>> THEN <<x>>
    ELSE IF SimGT(x.similarity, Head(sorted).similarity)
    THEN <<x>> \o sorted
    ELSE <<Head(sorted)>> \o InsertDesc(Tail(sorted), x)
RECURSIVE InsertAsc(_, _)
InsertAsc(sorted, x) ==
    IF sorted = <<>> THEN <<x>>
    ELSE IF SimGT(Head(sorted).similarity, x.similarity)
    THEN <<x>> \o sorted
    ELSE <<Head(sorted)>> \o InsertAsc(Tail(sorted), x)
RECURSIVE SortAscending(_)
SortAscending(s) ==
    IF s = <<>> THEN <<>>
    ELSE InsertAsc(SortAscending(SubSeq(s, 1, Len(s) - 1)), s[Len(s)])
RECURSIVE SortDescending(_)
SortDescending(s) ==
    IF s = <<>> THEN <<>>
    ELSE InsertDesc(SortDescending(SubSeq(s, 1, Len(s) - 1)), s[Len(s)])

\* s[:k] of a Python list
Take(s, k) ==
    LET n == IF k < 0 THEN Max(0, Len(s) + k) ELSE Min(k, Len(s))
    IN  SubSeq(s, 1, n)

\* search_similar as a function of the index; np.dot raises ValueError when
\* the query and a stored array differ in length
SearchResult(vs, query_vector, top_k, min_similarity) ==
    IF Len(vs) = 0 THEN [status |-> "ok", value |-> <<>>]
    ELSE LET q == Normalize(query_vector)
         IN  IF \E i \in 1..Len(vs) : vs[i].vector.len # q.len
             THEN [status |-> "ShapeMismatch", value |-> <<>>]
             ELSE [status |-> "ok",
                   value |-> Take(SortDescending(Scored(vs, q, min_similarity)), top_k)]

IndexEmbedders == {1}

IndexInit ==
    /\ use_pca = [e \in Embedders |-> FALSE]
    /\ n_components = [e \in Embedders |-> DefaultComponents]
    /\ pca_model = [e \in Embedders |-> NoModel]
    /\ vectors = [e \in Embedders |-> <<>>]
    /\ files = [p \in Paths |-> NoFile]
    /\ saved = [p \in Paths |-> NoSave]
    /\ trained_ok = [e \in Embedders |-> FALSE]
    /\ inserts = [e \in Embedders |-> <<>>]
    /\ search_frame = IdleSearch
    /\ insert_frame = [w \in Writers |-> IdleInsert]
    /\ replace_frame = IdleReplace
    /\ embed_frame = IdleEmbed
    /\ config = IdleConfig
    /\ recent_requests = <<>>
    /\ result = NoCall
    /\ wait_frame = IdleWait
    /\ approved = <<>>
    /\ parquet = [y \in Years |-> NoParquet]
    /\ exported = [y \in Years |-> {}]
    /\ ret = NoCall
    /\ cfg = [size |-> 1, stride |-> 1, interval_seconds |-> 1]
    /\ df = <<>>
    /\ sdf = <<>>
    /\ idx = 0
    /\ out = <<>>
    /\ wpc = "created"
    /\ stock_codes = <<>>
    /\ spos = 0
    /\ windows_by_stock = <<>>
    /\ spc = "created"

\* the call as the history records it
InsertCall(v, stock_code, timestamp, window_size) ==
    [vector |-> v, stock_code |-> stock_code, timestamp |-> timestamp,
     window_size |-> window_size]

\* the tuple insert_vector appends
Entry(v, stock_code, timestamp, window_size) ==
    [vector |-> Normalize(v), stock_code |-> stock_code, timestamp |-> timestamp,
     window_size |-> window_size]

insert_vector_deduplicating(e, v, stock_code, timestamp, window_size) ==
    /\ Len(vectors[e]) < MaxVectors
    /\ vectors' = [vectors EXCEPT ![e] =
                      IF \E i \in 1..Len(@) : @[i] = Entry(v, stock_code, timestamp, window_size)
                      THEN @
                      ELSE Append(@, Entry(v, stock_code, timestamp, window_size))]
    /\ inserts' = [inserts EXCEPT ![e] =
                      Append(@, InsertCall(v, stock_code, timestamp, window_size))]
    /\ ret' = [op |-> "insert", e |-> e, status |-> "ok",
               arg |-> [vector |-> v, stock_code |-> stock_code]]
    /\ UNCHANGED <<use_pca, n_components, pca_model, files, saved, trained_ok>>
    /\ UNCHANGED concVars
    /\ UNCHANGED extVars
    /\ UNCHANGED winVars
insert_vector(e, v, stock_code, timestamp, window_size) ==
    /\ Len(vectors[e]) < MaxVectors
    /\ vectors' = [vectors EXCEPT ![e] =
                      Append(@, Entry(v, stock_code, timestamp, window_size))]
    /\ inserts' = [inserts EXCEPT ![e] =
                      Append(@, InsertCall(v, stock_code, timestamp, window_size))]
    /\ ret' = [op |-> "insert", e |-> e, status |-> "ok",
               arg |-> [vector |-> v, stock_code |-> stock_code]]
    /\ UNCHANGED <<use_pca, n_components, pca_model, files, saved, trained_ok>>
    /\ UNCHANGED concVars
    /\ UNCHANGED extVars
    /\ UNCHANGED winVars

search_similar(e, q, top_k, min_similarity) ==
    LET r == SearchResult(vectors[e], q, top_k, min_similarity)
    IN  /\ ret' = [op |-> "search", e |-> e, status |-> r.status,
                   arg |-> [query |-> q, top_k |-> top_k, min_similarity |-> min_similarity],
                   value |-> r.value]
        /\ UNCHANGED <<use_pca, n_components, pca_model, vectors, files, saved, trained_ok,
                       inserts>>
        /\ UNCHANGED concVars
        /\ UNCHANGED extVars
        /\ UNCHANGED winVars

get_vector_count(e) == Len(vectors[e])

clear_vectors(e) ==
    /\ vectors' = [vectors EXCEPT ![e] = <<>>]
    /\ inserts' = [inserts EXCEPT ![e] = <<>>]
    /\ ret' = [op |-> "clear", e |-> e, status |-> "ok"]
    /\ UNCHANGED <<use_pca, n_components, pca_model, files, saved, trained_ok>>
    /\ UNCHANGED concVars
    /\ UNCHANGED extVars
    /\ UNCHANGED winVars

IndexNext ==
    \E e \in IndexEmbedders :
        \/ \E v \in IndexVectors, c \in IndexStocks, t \in IndexTimestamps,
              w \in IndexWindowSizes : insert_vector(e, v, c, t, w)
        \/ \E q \in QueryVectors, k \in SearchTopKs, m \in MinSimilarities :
              search_similar(e, q, k, m)
        \/ clear_vectors(e)

SpecIndex == IndexInit /\ [][IndexNext]_vars

(***************************************************************************)
(* Vector embedder: search_similar on one thread while other threads call  *)
(* insert_vector on the same embedder.  A step is what the interpreter     *)
(* does without another thread seeing a state in between: work on the      *)
(* locals of a call, or one operation on the shared list self.vectors      *)
(* (len, list.append, the next element for the for loop).                  *)
(***************************************************************************)

ConcVectors ==
    {v \in IndexVectors : v.len = DefaultComponents /\ v.vals \in {<<1, 0>>, <<1, 1>>, <<2, 0>>}}
ConcQueries == {[len |-> DefaultComponents, vals |-> <<2, 0>>, div2 |-> 1]}
ConcStocks == {"A", "B"}
ConcMinSimilarities == {[num |-> 0, den2 |-> 1], [num |-> 1, den2 |-> 1]}

ConcInit ==
    /\ use_pca = [e \in Embedders |-> FALSE]
    /\ n_components = [e \in Embedders |-> DefaultComponents]
    /\ pca_model = [e \in Embedders |-> NoModel]
    /\ vectors = [e \in Embedders |-> <<>>]
    /\ files = [p \in Paths |-> NoFile]
    /\ saved = [p \in Paths |-> NoSave]
    /\ trained_ok = [e \in Embedders |-> FALSE]
    /\ inserts = [e \in Embedders |-> <<>>]
    /\ search_frame = IdleSearch
    /\ insert_frame = [w \in Writers |-> IdleInsert]
    /\ replace_frame = IdleReplace
    /\ embed_frame = IdleEmbed
    /\ config = IdleConfig
    /\ recent_requests = <<>>
    /\ result = NoCall
    /\ wait_frame = IdleWait
    /\ approved = <<>>
    /\ parquet = [y \in Years |-> NoParquet]
    /\ exported = [y \in Years |-> {}]
    /\ ret = NoCall
    /\ cfg = [size |-> 1, stride |-> 1, interval_seconds |-> 1]
    /\ df = <<>>
    /\ sdf = <<>>
    /\ idx = 0
    /\ out = <<>>
    /\ wpc = "created"
    /\ stock_codes = <<>>
    /\ spos = 0
    /\ windows_by_stock = <<>>
    /\ spc = "created"

\* insert_vector calls that have begun and not yet appended
InsertsInFlight == Cardinality({w \in Writers : insert_frame[w].pc # "idle"})

\* a thread enters insert_vector
InsertBegin(e, w, v, stock_code, timestamp, window_size) ==
    /\ insert_frame[w].pc = "idle"
    /\ Len(vectors[e]) + InsertsInFlight < MaxVectors
    /\ insert_frame' = [insert_frame EXCEPT ![w] =
            [pc |-> "normalize", e |-> e, vector |-> v, stock_code |-> stock_code,
             timestamp |-> timestamp, window_size |-> window_size,
             call |-> InsertCall(v, stock_code, timestamp, window_size)]]
    /\ UNCHANGED <<use_pca, n_components, pca_model, vectors, files, saved, trained_ok,
                   inserts, search_frame, ret>>
    /\ UNCHANGED extVars
    /\ UNCHANGED winVars

\* norm = np.linalg.norm(vector); if norm > 0: vector = vector / norm
InsertNormalize(w) ==
    /\ insert_frame[w].pc = "normalize"
    /\ insert_frame' = [insert_frame EXCEPT ![w].vector = Normalize(@),
                                            ![w].pc = "append"]
    /\ UNCHANGED <<use_pca, n_components, pca_model, vectors, files, saved, trained_ok,
                   inserts, search_frame, ret>>
    /\ UNCHANGED extVars
    /\ UNCHANGED winVars

\* self.vectors.append((vector, stock_code, timestamp, window_size)): the
\* tuple is built from the locals and list.append adds it in one operation
InsertAppendMetadataLater(w) ==
    LET f == insert_frame[w]
    IN  /\ f.pc = "append"
        /\ vectors' = [vectors EXCEPT ![f.e] =
                          Append(@, [vector |-> f.vector, stock_code |-> "",
                                     timestamp |-> 0, window_size |-> 0])]
        /\ inserts' = [inserts EXCEPT ![f.e] = Append(@, f.call)]
        /\ insert_frame' = [insert_frame EXCEPT ![w] = IdleInsert]
        /\ UNCHANGED <<use_pca, n_components, pca_model, files, saved, trained_ok,
                       search_frame, ret>>
        /\ UNCHANGED extVars
        /\ UNCHANGED winVars
InsertAppend(w) ==
    LET f == insert_frame[w]
    IN  /\ f.pc = "append"
        /\ vectors' = [vectors EXCEPT ![f.e] =
                          Append(@, [vector |-> f.vector, stock_code |-> f.stock_code,
                                     timestamp |-> f.timestamp,
                                     window_size |-> f.window_size])]
        /\ inserts' = [inserts EXCEPT ![f.e] = Append(@, f.call)]
        /\ insert_frame' = [insert_frame EXCEPT ![w] = IdleInsert]
        /\ UNCHANGED <<use_pca, n_components, pca_model, files, saved, trained_ok,
                       search_frame, ret>>
        /\ UNCHANGED extVars
        /\ UNCHANGED winVars

\* the reader thread enters search_similar
SearchBegin(e, q, top_k, min_similarity) ==
    /\ search_frame.pc \in {"idle", "done"}
    /\ search_frame' = [pc |-> "check", e |-> e, query_vector |-> q, top_k |-> top_k,
                        min_similarity |-> min_similarity, i |-> 0,
                        similarities |-> <<>>, observed |-> <<>>, result |-> <<>>,
                        len_at_check |-> 0]
    /\ UNCHANGED <<use_pca, n_components, pca_model, vectors, files, saved, trained_ok,
                   inserts, insert_frame, ret>>
    /\ UNCHANGED extVars
    /\ UNCHANGED winVars

\* if len(self.vectors) == 0: return []; otherwise the query is normalized
\* and the for loop takes an iterator over self.vectors
SearchCheckEmpty ==
    /\ search_frame.pc = "check"
    /\ search_frame' =
          IF Len(vectors[search_frame.e]) = 0
          THEN [search_frame EXCEPT !.pc = "done"]
          ELSE [search_frame EXCEPT !.pc = "loop",
                                    !.query_vector = Normalize(@),
                                    !.len_at_check = Len(vectors[search_frame.e])]
    /\ UNCHANGED <<use_pca, n_components, pca_model, vectors, files, saved, trained_ok,
                   inserts, insert_frame, ret>>
    /\ UNCHANGED extVars
    /\ UNCHANGED winVars

\* one turn of the for loop: the list iterator hands out the element at its
\* index if the list (as it is now) has one, and the body scores it
SearchLoopNext ==
    LET f == search_frame
    IN  /\ f.pc = "loop"
        /\ search_frame' =
              IF f.i < Len(vectors[f.e])
              THEN LET entry == vectors[f.e][f.i + 1]
                       similarity == Dot(f.query_vector, entry.vector)
                   IN  [f EXCEPT !.i = @ + 1,
                                 !.observed = Append(@, entry),
                                 !.similarities =
                                     IF SimGE(similarity, f.min_similarity)
                                     THEN Append(@, [stock_code |-> entry.stock_code,
                                                     timestamp |-> entry.timestamp,
                                                     window_size |-> entry.window_size,
                                                     similarity |-> similarity])
                                     ELSE @]
              ELSE [f EXCEPT !.pc = "sort"]
        /\ UNCHANGED <<use_pca, n_components, pca_model, vectors, files, saved, trained_ok,
                       inserts, insert_frame, ret>>
        /\ UNCHANGED extVars
        /\ UNCHANGED winVars

\* similarities.sort(...); return similarities[:top_k]
SearchReturn ==
    /\ search_frame.pc = "sort"
    /\ search_frame' = [search_frame EXCEPT
                            !.pc = "done",
                            !.result = Take(SortDescending(search_frame.similarities),
                                            search_frame.top_k)]
    /\ UNCHANGED <<use_pca, n_components, pca_model, vectors, files, saved, trained_ok,
                   inserts, insert_frame, ret>>
    /\ UNCHANGED extVars
    /\ UNCHANGED winVars

ConcNext ==
    \/ \E e \in IndexEmbedders, w \in Writers, v \in ConcVectors, c \in ConcStocks,
          t \in IndexTimestamps, ws \in IndexWindowSizes : InsertBegin(e, w, v, c, t, ws)
    \/ \E w \in Writers : InsertNormalize(w)
    \/ \E w \in Writers : InsertAppend(w)
    \/ \E e \in IndexEmbedders, q \in ConcQueries, m \in ConcMinSimilarities :
          SearchBegin(e, q, MaxTopK, m)
    \/ SearchCheckEmpty
    \/ SearchLoopNext
    \/ SearchReturn

SpecConc == ConcInit /\ [][ConcNext]_vars

(***************************************************************************)
(* Vector embedder: one embedder used as a whole, its model life cycle and *)
(* its index together; what is inserted and searched for is what           *)
(* embed_vector returns at that moment                                     *)
(***************************************************************************)

\* the arrays embed_vector returns for the valid raw vectors, as the index
\* takes them
Embeddings(e) ==
    {[len |-> r.value.len, vals |-> r.value.vals, div2 |-> 1] :
        r \in {o \in {EmbedResult(use_pca[e], pca_model[e], v) : v \in ValidRawVectors} :
                 o.status = "ok"}}

EmbedderInit ==
    /\ use_pca \in {f \in [Embedders -> BOOLEAN] : ~f[2]}
    /\ n_components = [e \in Embedders |-> DefaultComponents]
    /\ pca_model = [e \in Embedders |-> NoModel]
    /\ vectors = [e \in Embedders |-> <<>>]
    /\ files = [p \in Paths |-> IF p = "notes.txt" THEN TextFile ELSE NoFile]
    /\ saved = [p \in Paths |-> NoSave]
    /\ trained_ok = [e \in Embedders |-> FALSE]
    /\ inserts = [e \in Embedders |-> <<>>]
    /\ ret = NoCall
    /\ config = IdleConfig
    /\ recent_requests = <<>>
    /\ result = NoCall
    /\ wait_frame = IdleWait
    /\ approved = <<>>
    /\ parquet = [y \in Years |-> NoParquet]
    /\ exported = [y \in Years |-> {}]
    /\ search_frame = IdleSearch
    /\ insert_frame = [w \in Writers |-> IdleInsert]
    /\ replace_frame = IdleReplace
    /\ embed_frame = IdleEmbed
    /\ cfg = [size |-> 1, stride |-> 1, interval_seconds |-> 1]
    /\ df = <<>>
    /\ sdf = <<>>
    /\ idx = 0
    /\ out = <<>>
    /\ wpc = "created"
    /\ stock_codes = <<>>
    /\ spos = 0
    /\ windows_by_stock = <<>>
    /\ spc = "created"

\* get_vector_count() and get_vector_dimension() as calls
GetVectorCount(e) ==
    /\ ret' = [op |-> "count", e |-> e, status |-> "ok", value |-> get_vector_count(e)]
    /\ UNCHANGED <<use_pca, n_components, pca_model, vectors, files, saved, trained_ok,
                   inserts>>
    /\ UNCHANGED <<concVars, extVars, winVars>>

GetVectorDimension(e) ==
    /\ ret' = [op |-> "dimension", e |-> e, status |-> "ok",
               value |-> get_vector_dimension(e)]
    /\ UNCHANGED <<use_pca, n_components, pca_model, vectors, files, saved, trained_ok,
                   inserts>>
    /\ UNCHANGED <<concVars, extVars, winVars>>

EmbedderNext ==
    \E e \in IndexEmbedders :
        \/ \E X \in TrainingSets : train_pca(e, X)
        \/ \E p \in SavePaths : save_pca_model(e, p)
        \/ \E p \in Paths : load_pca_model(e, p)
        \/ \E v \in ValidRawVectors : embed_vector(e, v)
        \/ \E v \in Embeddings(e), t \in IndexTimestamps, w \in IndexWindowSizes :
              insert_vector(e, v, "A", t, w)
        \/ \E q \in Embeddings(e), m \in MinSimilarities :
              search_similar(e, q, MaxTopK, m)
        \/ clear_vectors(e)
        \/ GetVectorCount(e)
        \/ GetVectorDimension(e)

SpecEmbedder == EmbedderInit /\ [][EmbedderNext]_vars

(***************************************************************************)
(* Vector embedder: embed_vector on one thread while another thread runs   *)
(* train_pca or load_pca_model on the same embedder.  A step is one read   *)
(* or write of an attribute of the embedder together with the work on      *)
(* locals around it; PCA.fit, which fills the model object in place, is    *)
(* taken as one step.                                                      *)
(***************************************************************************)

\* a model some embedder trained and saved earlier
StoredModel == [kind |-> "PCA", fitted |-> TRUE, n_components |-> 2,
                mean |-> <<1, 0>>, swap |-> TRUE]

\* what embed_vector sees of the embedder
ModelState(e) == [flag |-> use_pca[e], model |-> pca_model[e]]

SwapInit ==
    /\ use_pca \in [Embedders -> BOOLEAN]
    /\ n_components = [e \in Embedders |-> DefaultComponents]
    /\ pca_model = [e \in Embedders |-> NoModel]
    /\ vectors = [e \in Embedders |-> <<>>]
    /\ files = [p \in Paths |-> IF p = "pca.pkl"
                                THEN [exists |-> TRUE, bytes |-> Pickle(StoredModel)]
                                ELSE IF p = "notes.txt" THEN TextFile ELSE NoFile]
    /\ saved = [p \in Paths |-> NoSave]
    /\ trained_ok = [e \in Embedders |-> FALSE]
    /\ inserts = [e \in Embedders |-> <<>>]
    /\ search_frame = IdleSearch
    /\ insert_frame = [w \in Writers |-> IdleInsert]
    /\ replace_frame = IdleReplace
    /\ embed_frame = IdleEmbed
    /\ config = IdleConfig
    /\ recent_requests = <<>>
    /\ result = NoCall
    /\ wait_frame = IdleWait
    /\ approved = <<>>
    /\ parquet = [y \in Years |-> NoParquet]
    /\ exported = [y \in Years |-> {}]
    /\ ret = NoCall
    /\ cfg = [size |-> 1, stride |-> 1, interval_seconds |-> 1]
    /\ df = <<>>
    /\ sdf = <<>>
    /\ idx = 0
    /\ out = <<>>
    /\ wpc = "created"
    /\ stock_codes = <<>>
    /\ spos = 0
    /\ windows_by_stock = <<>>
    /\ spc = "created"

\* history kept in embed_frame.settled: the model states the running
\* embed_vector call may answer from, namely the one in force when it began
\* (the one before the replacement then under way) and every one a
\* replacement completed while it ran
EmbedRunning == embed_frame.pc \in {"flag", "model", "transform"}
SettledAfterReplacement(e, flag, model) ==
    IF EmbedRunning /\ embed_frame.e = e
    THEN [embed_frame EXCEPT !.settled = @ \cup {[flag |-> flag, model |-> model]}]
    ELSE embed_frame

\* train_pca up to the dimension check
TrainBegin(e, X) ==
    /\ replace_frame.pc = "idle"
    /\ IF X.row_len # RAW_DIM
       THEN /\ replace_frame' = IdleReplace
            /\ ret' = [op |-> "train", e |-> e, status |-> "DimensionMismatch", arg |-> X]
       ELSE /\ replace_frame' = [pc |-> "assign", e |-> e, op |-> "train", arg |-> X,
                                 before |-> ModelState(e)]
            /\ UNCHANGED ret
    /\ UNCHANGED <<use_pca, n_components, pca_model, vectors, files, saved, trained_ok,
                   inserts, search_frame, insert_frame, embed_frame>>
    /\ UNCHANGED <<limVars, expVars, winVars>>

\* self.pca_model = PCA(n_components=self.n_components)
TrainAssign ==
    /\ replace_frame.pc = "assign"
    /\ pca_model' = [pca_model EXCEPT ![replace_frame.e] =
                         UnfittedPCA(n_components[replace_frame.e])]
    /\ replace_frame' = [replace_frame EXCEPT !.pc = "fit"]
    /\ UNCHANGED <<use_pca, n_components, vectors, files, saved, trained_ok,
                   inserts, search_frame, insert_frame, embed_frame, ret>>
    /\ UNCHANGED <<limVars, expVars, winVars>>

\* self.pca_model.fit(training_vectors), and the return or the exception
TrainFit ==
    LET e == replace_frame.e
        X == replace_frame.arg
    IN  /\ replace_frame.pc = "fit"
        /\ IF FitAccepts(n_components[e], X)
           THEN /\ pca_model' = [pca_model EXCEPT ![e] = FittedPCA(n_components[e], X)]
                /\ trained_ok' = [trained_ok EXCEPT ![e] = TRUE]
                /\ embed_frame' = SettledAfterReplacement(e, use_pca[e],
                                       FittedPCA(n_components[e], X))
                /\ ret' = [op |-> "train", e |-> e, status |-> "ok", arg |-> X]
           ELSE /\ ret' = [op |-> "train", e |-> e, status |-> "FitError", arg |-> X]
                /\ UNCHANGED <<pca_model, trained_ok, embed_frame>>
        /\ replace_frame' = IdleReplace
        /\ UNCHANGED <<use_pca, n_components, vectors, files, saved,
                       inserts, search_frame, insert_frame>>
        /\ UNCHANGED <<limVars, expVars, winVars>>

\* load_pca_model up to the existence check
LoadBegin(e, p) ==
    /\ replace_frame.pc = "idle"
    /\ IF ~files[p].exists
       THEN /\ replace_frame' = IdleReplace
            /\ ret' = [op |-> "load", e |-> e, status |-> "FileNotFound", arg |-> p]
       ELSE /\ replace_frame' = [pc |-> "read", e |-> e, op |-> "load", arg |-> p,
                                 before |-> ModelState(e)]
            /\ UNCHANGED ret
    /\ UNCHANGED <<use_pca, n_components, pca_model, vectors, files, saved, trained_ok,
                   inserts, search_frame, insert_frame, embed_frame>>
    /\ UNCHANGED <<limVars, expVars, winVars>>

\* self.pca_model = pickle.load(f), or the exception of pickle.load
LoadAssign ==
    LET e == replace_frame.e
        p == replace_frame.arg
    IN  /\ replace_frame.pc = "read"
        /\ IF ~Unpicklable(files[p].bytes)
           THEN /\ replace_frame' = IdleReplace
                /\ ret' = [op |-> "load", e |-> e, status |-> "UnpicklingError", arg |-> p]
                /\ UNCHANGED pca_model
           ELSE /\ pca_model' = [pca_model EXCEPT ![e] = Unpickle(files[p].bytes)]
                /\ replace_frame' = [replace_frame EXCEPT !.pc = "flag"]
                /\ UNCHANGED ret
        /\ UNCHANGED <<use_pca, n_components, vectors, files, saved, trained_ok,
                       inserts, search_frame, insert_frame, embed_frame>>
        /\ UNCHANGED <<limVars, expVars, winVars>>

\* self.use_pca = True, and the return
LoadSetFlag ==
    LET e == replace_frame.e
    IN  /\ replace_frame.pc = "flag"
        /\ use_pca' = [use_pca EXCEPT ![e] = TRUE]
        /\ trained_ok' = [trained_ok EXCEPT ![e] = TRUE]
        /\ embed_frame' = SettledAfterReplacement(e, TRUE, pca_model[e])
        /\ ret' = [op |-> "load", e |-> e, status |-> "ok", arg |-> replace_frame.arg]
        /\ replace_frame' = IdleReplace
        /\ UNCHANGED <<n_components, pca_model, vectors, files, saved,
                       inserts, search_frame, insert_frame>>
        /\ UNCHANGED <<limVars, expVars, winVars>>

\* embed_vector up to the checks of its argument, which read no attribute
\* that a replacement writes
EmbedBegin(e, v) ==
    /\ embed_frame.pc \in {"idle", "done"}
    /\ LET checks == EmbedResult(FALSE, NoModel, v)
       IN  embed_frame' =
              [pc |-> IF checks.status = "ok" THEN "flag" ELSE "done",
               e |-> e, raw_vector |-> v, status |-> checks.status, value |-> v,
               settled |-> {IF replace_frame.pc # "idle" /\ replace_frame.e = e
                            THEN replace_frame.before
                            ELSE ModelState(e)}]
    /\ UNCHANGED <<use_pca, n_components, pca_model, vectors, files, saved, trained_ok,
                   inserts, search_frame, insert_frame, replace_frame, ret>>
    /\ UNCHANGED <<limVars, expVars, winVars>>

\* if self.use_pca: ... else: return raw_vector
EmbedReadFlag ==
    /\ embed_frame.pc = "flag"
    /\ embed_frame' = [embed_frame EXCEPT
                           !.pc = IF use_pca[embed_frame.e] THEN "model" ELSE "done"]
    /\ UNCHANGED <<use_pca, n_components, pca_model, vectors, files, saved, trained_ok,
                   inserts, search_frame, insert_frame, replace_frame, ret>>
    /\ UNCHANGED <<limVars, expVars, winVars>>

\* if self.pca_model is None: raise ValueError
EmbedCheckModel ==
    /\ embed_frame.pc = "model"
    /\ embed_frame' =
          IF pca_model[embed_frame.e] = NoModel
          THEN [embed_frame EXCEPT !.pc = "done", !.status = "ModelNotTrained"]
          ELSE [embed_frame EXCEPT !.pc = "transform"]
    /\ UNCHANGED <<use_pca, n_components, pca_model, vectors, files, saved, trained_ok,
                   inserts, search_frame, insert_frame, replace_frame, ret>>
    /\ UNCHANGED <<limVars, expVars, winVars>>

\* embedded = self.pca_model.transform(raw_vector.reshape(1, -1))[0]
EmbedTransform ==
    /\ embed_frame.pc = "transform"
    /\ LET r == EmbedResult(TRUE, pca_model[embed_frame.e], embed_frame.raw_vector)
       IN  embed_frame' = [embed_frame EXCEPT !.pc = "done", !.status = r.status,
                                              !.value = r.value]
    /\ UNCHANGED <<use_pca, n_components, pca_model, vectors, files, saved, trained_ok,
                   inserts, search_frame, insert_frame, replace_frame, ret>>
    /\ UNCHANGED <<limVars, expVars, winVars>>

SwapNext ==
    \/ \E e \in IndexEmbedders, X \in TrainingSets : TrainBegin(e, X)
    \/ TrainAssign
    \/ TrainFit
    \/ \E e \in IndexEmbedders, p \in Paths : LoadBegin(e, p)
    \/ LoadAssign
    \/ LoadSetFlag
    \/ \E e \in IndexEmbedders, v \in RawVectors : EmbedBegin(e, v)
    \/ EmbedReadFlag
    \/ EmbedCheckModel
    \/ EmbedTransform

SpecSwap == SwapInit /\ [][SwapNext]_vars

(***************************************************************************)
(* Rate limiter: one caller threading the limiter through the results of   *)
(* try_request and wait_and_request.  Time is in whole milliseconds and    *)
(* timestamps are kept relative to the present: the clock reads Now, and   *)
(* when it advances by d every stored timestamp moves d into the past.     *)
(* A timestamp that left the window is kept at one position beyond it.     *)
(***************************************************************************)

MaxRequests == 3
MaxWindowMs == 3

\* a rate limit: at least one request per window of at least one millisecond
LimiterConfigs == [max_requests_per_second : 1..MaxRequests,
                   window_size_ms : 1..MaxWindowMs]

\* now = time.time() * 1000
Now == 0

\* the clock advances by d
Elapse(rr, d, c) ==
    [i \in 1..Len(rr) |-> Max(rr[i] - d, Now - (c.window_size_ms + 1))]

\* while self.recent_requests and self.recent_requests[0] < window_start:
\*     self.recent_requests.popleft()
PruneNothing(rr, window_start) == rr
RECURSIVE Prune(_, _)
Prune(rr, window_start) ==
    IF rr # <<>> /\ Head(rr) < window_start
    THEN Prune(Tail(rr), window_start)
    ELSE rr

\* try_request on a limiter holding rr: the result, and in receiver the
\* deque the limiter holds afterwards
TryOutcomeAtLimit(rr, c) ==
    LET window_start == Now - c.window_size_ms
        pruned == Prune(rr, window_start)
    IN  IF Len(pruned) <= c.max_requests_per_second
        THEN [kind |-> "Allowed", wait_time_ms |-> 0, receiver |-> pruned,
              state |-> Append(pruned, Now)]
        ELSE [kind |-> "Denied",
              wait_time_ms |-> Max(0, (pruned[1] + c.window_size_ms) - Now),
              receiver |-> pruned, state |-> pruned]
TryOutcome(rr, c) ==
    LET window_start == Now - c.window_size_ms
        pruned == Prune(rr, window_start)
    IN  IF Len(pruned) < c.max_requests_per_second
        THEN [kind |-> "Allowed", wait_time_ms |-> 0, receiver |-> pruned,
              state |-> Append(pruned, Now)]
        ELSE [kind |-> "Denied",
              wait_time_ms |-> Max(0, (pruned[1] + c.window_size_ms) - Now),
              receiver |-> pruned, state |-> pruned]

\* the record of a finished call: the receiver's deque before and after it
CallRecord(op, o, waited) ==
    [op |-> op, e |-> 0, status |-> "ok", kind |-> o.kind,
     wait_time_ms |-> o.wait_time_ms, before |-> recent_requests,
     receiver |-> o.receiver, state |-> o.state, waited |-> waited]

\* the approvals of the chain that are still within the window
WithinWindow(rr, c) == SelectSeq(rr, LAMBDA t : t >= Now - c.window_size_ms)

LimiterInit ==
    /\ config \in LimiterConfigs
    /\ recent_requests = <<>>
    /\ result = NoCall
    /\ wait_frame = IdleWait
    /\ approved = <<>>
    /\ parquet = [y \in Years |-> NoParquet]
    /\ exported = [y \in Years |-> {}]
    /\ use_pca = [e \in Embedders |-> TRUE]
    /\ n_components = [e \in Embedders |-> DefaultComponents]
    /\ pca_model = [e \in Embedders |-> NoModel]
    /\ vectors = [e \in Embedders |-> <<>>]
    /\ files = [p \in Paths |-> NoFile]
    /\ saved = [p \in Paths |-> NoSave]
    /\ trained_ok = [e \in Embedders |-> FALSE]
    /\ inserts = [e \in Embedders |-> <<>>]
    /\ search_frame = IdleSearch
    /\ insert_frame = [w \in Writers |-> IdleInsert]
    /\ replace_frame = IdleReplace
    /\ embed_frame = IdleEmbed
    /\ ret = NoCall
    /\ cfg = [size |-> 1, stride |-> 1, interval_seconds |-> 1]
    /\ df = <<>>
    /\ sdf = <<>>
    /\ idx = 0
    /\ out = <<>>
    /\ wpc = "created"
    /\ stock_codes = <<>>
    /\ spos = 0
    /\ windows_by_stock = <<>>
    /\ spc = "created"

\* time passes between two calls
ClockAdvance ==
    /\ recent_requests' = Elapse(recent_requests, 1, config)
    /\ approved' = WithinWindow(Elapse(approved, 1, config), config)
    /\ UNCHANGED <<config, result, wait_frame>>
    /\ UNCHANGED <<modelVars, concVars, swapVars, expVars, winVars>>

\* result = limiter.try_request(); the caller goes on with result.new_state
\* or result.current_state
try_request ==
    /\ wait_frame.pc = "idle"
    /\ LET o == TryOutcome(recent_requests, config)
       IN  /\ result' = CallRecord("try_request", o, FALSE)
           /\ recent_requests' = o.state
           /\ approved' = IF o.kind = "Allowed" THEN Append(approved, Now) ELSE approved
    /\ UNCHANGED <<config, wait_frame>>
    /\ UNCHANGED <<modelVars, concVars, swapVars, expVars, winVars>>

\* limiter.can_make_request(): the result of try_request is dropped and the
\* caller goes on with the limiter it called
can_make_request ==
    /\ wait_frame.pc = "idle"
    /\ LET o == TryOutcome(recent_requests, config)
       IN  /\ result' = CallRecord("can_make_request", o, FALSE)
           /\ recent_requests' = o.receiver
    /\ UNCHANGED <<config, wait_frame, approved>>
    /\ UNCHANGED <<modelVars, concVars, swapVars, expVars, winVars>>

\* limiter.calculate_wait_time(): 0 for Allowed, else the wait time
calculate_wait_time ==
    /\ wait_frame.pc = "idle"
    /\ LET o == TryOutcome(recent_requests, config)
       IN  /\ result' = CallRecord("calculate_wait_time", o, FALSE)
           /\ recent_requests' = o.receiver
    /\ UNCHANGED <<config, wait_frame, approved>>
    /\ UNCHANGED <<modelVars, concVars, swapVars, expVars, winVars>>

\* limiter = limiter.wait_and_request(): entering the loop
WaitBegin ==
    /\ wait_frame.pc = "idle"
    /\ wait_frame' = [pc |-> "try", wait_time_ms |-> 0, waited |-> FALSE]
    /\ UNCHANGED <<config, recent_requests, result, approved>>
    /\ UNCHANGED <<modelVars, concVars, swapVars, expVars, winVars>>

\* result = self.try_request(); return result.new_state when Allowed
WaitTry ==
    /\ wait_frame.pc = "try"
    /\ LET o == TryOutcome(recent_requests, config)
       IN  IF o.kind = "Allowed"
           THEN /\ result' = CallRecord("wait_and_request", o, wait_frame.waited)
                /\ recent_requests' = o.state
                /\ approved' = Append(approved, Now)
                /\ wait_frame' = IdleWait
           ELSE /\ recent_requests' = o.receiver
                /\ wait_frame' = [pc |-> "sleep", wait_time_ms |-> o.wait_time_ms,
                                  waited |-> TRUE]
                /\ UNCHANGED <<result, approved>>
    /\ UNCHANGED config
    /\ UNCHANGED <<modelVars, concVars, swapVars, expVars, winVars>>

\* time.sleep(result.wait_time_ms / 1000.0): at least that long
WaitSleep ==
    /\ wait_frame.pc = "sleep"
    /\ \E d \in wait_frame.wait_time_ms..(config.window_size_ms + 1) :
          /\ recent_requests' = Elapse(recent_requests, d, config)
          /\ approved' = WithinWindow(Elapse(approved, d, config), config)
    /\ wait_frame' = [wait_frame EXCEPT !.pc = "try"]
    /\ UNCHANGED <<config, result>>
    /\ UNCHANGED <<modelVars, concVars, swapVars, expVars, winVars>>

LimiterNext ==
    \/ ClockAdvance
    \/ try_request
    \/ can_make_request
    \/ calculate_wait_time
    \/ WaitBegin
    \/ WaitTry
    \/ WaitSleep

SpecLimiter == LimiterInit /\ [][LimiterNext]_vars

\* the caller's thread keeps running and the clock keeps advancing
SpecLimiterFair ==
    /\ LimiterInit
    /\ [][LimiterNext]_vars
    /\ WF_vars(WaitTry)
    /\ WF_vars(WaitSleep)
    /\ WF_vars(ClockAdvance)

(***************************************************************************)
(* Parquet exporter: export_from_dataframe for one timeframe.  Timestamps  *)
(* are counted in whole days since the epoch (86 400 000 ms each); a       *)
(* candle is its key columns and one value column.                         *)
(***************************************************************************)

MaxBatch == 2

\* 2023-12-31 and 2024-01-01
ExportDays == {19722, 19723}
ExportStocks == {"A", "B"}
Closes == {1, 2}
Candles == [timestamp : ExportDays, stock_code : ExportStocks, close : Closes]
Batches == UNION {[1..n -> Candles] : n \in 0..MaxBatch}

\* pl.from_epoch("timestamp", time_unit="ms").dt.year(), for the days above:
\* day 19723 is the first of 2024
YearOf(timestamp) == IF timestamp < 19723 THEN 2023 ELSE 2024

Key(r) == <<r.timestamp, r.stock_code>>

\* the group of one year in df.partition_by("year"), rows in their order
YearGroup(d, year) == SelectSeq(d, LAMBDA r : YearOf(r.timestamp) = year)

\* unique(subset=["timestamp", "stock_code"], keep="last"): of the rows
\* with one key, the last
RECURSIVE UniqueKeepLast(_)
UniqueKeepLast(d) ==
    IF d = <<>> THEN <<>>
    ELSE IF \E i \in 2..Len(d) : Key(d[i]) = Key(Head(d))
    THEN UniqueKeepLast(Tail(d))
    ELSE <<Head(d)>> \o UniqueKeepLast(Tail(d))

\* the contents the loop body may leave in the file of one year: the file
\* as it was when the batch has no row of that year; existing rows and the
\* group deduplicated and sorted when the file exists; the group sorted
\* when it does not
WrittenFile(file, year_df) ==
    IF year_df = <<>> THEN {file}
    ELSE IF file.exists
    THEN {[exists |-> TRUE, rows |-> s] :
             s \in SortByTimestamp(UniqueKeepLast(file.rows \o year_df))}
    ELSE {[exists |-> TRUE, rows |-> s] : s \in SortByTimestamp(year_df)}

ExportInit ==
    /\ parquet = [y \in Years |-> NoParquet]
    /\ exported = [y \in Years |-> {}]
    /\ config = IdleConfig
    /\ recent_requests = <<>>
    /\ result = NoCall
    /\ wait_frame = IdleWait
    /\ approved = <<>>
    /\ use_pca = [e \in Embedders |-> TRUE]
    /\ n_components = [e \in Embedders |-> DefaultComponents]
    /\ pca_model = [e \in Embedders |-> NoModel]
    /\ vectors = [e \in Embedders |-> <<>>]
    /\ files = [p \in Paths |-> NoFile]
    /\ saved = [p \in Paths |-> NoSave]
    /\ trained_ok = [e \in Embedders |-> FALSE]
    /\ inserts = [e \in Embedders |-> <<>>]
    /\ search_frame = IdleSearch
    /\ insert_frame = [w \in Writers |-> IdleInsert]
    /\ replace_frame = IdleReplace
    /\ embed_frame = IdleEmbed
    /\ ret = NoCall
    /\ cfg = [size |-> 1, stride |-> 1, interval_seconds |-> 1]
    /\ df = <<>>
    /\ sdf = <<>>
    /\ idx = 0
    /\ out = <<>>
    /\ wpc = "created"
    /\ stock_codes = <<>>
    /\ spos = 0
    /\ windows_by_stock = <<>>
    /\ spc = "created"

\* export_from_dataframe(batch, timeframe): every year group of the batch
\* is written to the file of its year
export_from_dataframe(batch) ==
    /\ \E a \in WrittenFile(parquet[2023], YearGroup(batch, 2023)),
          b \in WrittenFile(parquet[2024], YearGroup(batch, 2024)) :
          parquet' = [y \in Years |-> IF y = 2023 THEN a ELSE b]
    /\ exported' = [y \in Years |->
                       exported[y] \cup {Key(batch[i]) :
                                           i \in {j \in 1..Len(batch) :
                                                    YearOf(batch[j].timestamp) = y}}]
    /\ UNCHANGED <<modelVars, concVars, swapVars, limVars, winVars>>

ExportNext == \E batch \in Batches : export_from_dataframe(batch)

SpecExport == ExportInit /\ [][ExportNext]_vars

(***************************************************************************)
(* Properties of the sliding window extractor (SpecWin)                    *)
(***************************************************************************)

IntervalMs(c) == c.interval_seconds * MsPerSecond
Span(rows) == rows[Len(rows)].timestamp - rows[1].timestamp
RowsAt(d, start, size) == [j \in 1..size |-> d[start + j]]

\* start indices 0, stride, 2*stride, ... with start + size <= n
CandidateStarts(c, n) == {i \in 0..n : i % c.stride = 0 /\ i + c.size <= n}
PassingStarts(d, c) ==
    {i \in CandidateStarts(c, Len(d)) :
        Abs(Span(RowsAt(d, i, c.size)) - (c.size - 1) * IntervalMs(c)) <= ToleranceMs}

ExactlySpaced(d, c) ==
    \A i \in 1..(Len(d) - 1) : d[i + 1].timestamp - d[i].timestamp = IntervalMs(c)

\* C1: under a config with size >= 1 and stride >= 1, every window that
\* extract_windows has yielded has exactly config.size rows.
C1_WindowSize ==
    ValidConfig(cfg) => \A k \in 1..Len(out) : Len(out[k].rows) = cfg.size

C1_Witness ==
    /\ ValidConfig(cfg)
    /\ wpc = "done"
    /\ cfg.size >= 2
    /\ Len(df) > cfg.size
    /\ Len(out) >= 2

\* C2: every yielded window's span (last timestamp minus first) is within
\* the 1000 ms tolerance of (size - 1) * interval_seconds * 1000 ms.
C2_SpanWithinTolerance ==
    \A k \in 1..Len(out) :
        Abs(Span(out[k].rows) - (cfg.size - 1) * IntervalMs(cfg)) <= ToleranceMs

C2_Witness ==
    /\ wpc = "done"
    /\ \E k \in 1..Len(out) : Span(out[k].rows) < (cfg.size - 1) * IntervalMs(cfg)
    /\ \E k \in 1..Len(out) : Span(out[k].rows) > (cfg.size - 1) * IntervalMs(cfg)

\* C3: on a series of N points exactly one interval apart, with
\* 1 <= size <= N and stride >= 1, the finished extraction has yielded
\* floor((N - size) / stride) + 1 windows, the k-th (from 0) being the
\* size rows of the sorted series that start at index k * stride.
C3_ContinuousSeriesCount ==
    (/\ wpc = "done"
     /\ ValidConfig(cfg)
     /\ cfg.size <= Len(df)
     /\ ExactlySpaced(sdf, cfg))
    => /\ Len(out) = ((Len(df) - cfg.size) \div cfg.stride) + 1
       /\ \A k \in 1..Len(out) :
            /\ out[k].start = (k - 1) * cfg.stride
            /\ out[k].rows = RowsAt(sdf, out[k].start, cfg.size)

C3_Witness ==
    /\ wpc = "done"
    /\ ValidConfig(cfg)
    /\ cfg.size <= Len(df)
    /\ ExactlySpaced(sdf, cfg)
    /\ cfg.stride = 2
    /\ Len(out) = 2
    /\ df # sdf

\* C4: under a valid config extract_windows never raises, and the finished
\* extraction has yielded, in ascending start index, exactly the candidate
\* slices of the sorted series whose span passes the tolerance check.
C4_GapsOnlyReduceYield ==
    ValidConfig(cfg) =>
        /\ wpc # "error"
        /\ wpc = "done" =>
            /\ {out[k].start : k \in 1..Len(out)} = PassingStarts(sdf, cfg)
            /\ \A k \in 1..Len(out) : out[k].rows = RowsAt(sdf, out[k].start, cfg.size)
            /\ \A k \in 1..(Len(out) - 1) : out[k].start < out[k + 1].start

\* a gap inside each of two or more candidate slices: no window, no error
C4_Witness ==
    /\ ValidConfig(cfg)
    /\ wpc = "done"
    /\ Cardinality(CandidateStarts(cfg, Len(sdf))) >= 2
    /\ \A i \in CandidateStarts(cfg, Len(sdf)) :
          Span(RowsAt(sdf, i, cfg.size)) > (cfg.size - 1) * IntervalMs(cfg) + ToleranceMs
    /\ out = <<>>

\* C5: a config with size < 1 or stride < 1 is rejected: no extraction
\* under such a config completes normally, whatever the series.
C5_InvalidConfigRejected ==
    ~ValidConfig(cfg) => wpc # "done"

\* floor(a / b) for b > 0: the integer q with q * b <= a < (q + 1) * b
FloorOfQuotient(a, b) ==
    CHOOSE q \in (-(MaxSize + 1))..(MaxLen + 1) : q * b <= a /\ a < (q + 1) * b

\* C16: for every series and valid config (seen when the extraction over
\* them has finished), count_windows is the number of windows
\* extract_windows has yielded and never exceeds
\* get_window_stats(...).max_possible_windows, which is
\* max(0, floor((total - size) / stride) + 1); for a series shorter than
\* size (the empty one included) both are 0.
C16_CountWithinMax ==
    (ValidConfig(cfg) /\ wpc = "done") =>
        LET stats == get_window_stats(df, cfg)
        IN  /\ stats.status = "ok"
            /\ stats.max_possible_windows
               = Max(0, FloorOfQuotient(Len(df) - cfg.size, cfg.stride) + 1)
            /\ \A n \in count_windows(df, cfg) :
                  /\ n.status = "ok"
                  /\ n.value = Len(out)
                  /\ n.value <= stats.max_possible_windows
                  /\ Len(df) < cfg.size =>
                        (n.value = 0 /\ stats.max_possible_windows = 0)

\* a finished extraction that skipped a window: the count is below the maximum
C16_Witness ==
    /\ ValidConfig(cfg)
    /\ wpc = "done"
    /\ Len(out) = 1
    /\ get_window_stats(df, cfg).max_possible_windows = 2
    /\ \E n \in count_windows(df, cfg) : n.value = 1

\* C19: every window extract_windows yields has no missing candle: each
\* pair of consecutive rows of the window is one interval apart, within the
\* tolerance, whatever the series (repeated timestamps and irregular
\* spacing included).
C19_NoMissingCandles ==
    \A k \in 1..Len(out) :
        \A j \in 1..(Len(out[k].rows) - 1) :
            Abs(out[k].rows[j + 1].timestamp - out[k].rows[j].timestamp - IntervalMs(cfg))
            <= ToleranceMs

\* the timestamps of each window of a list of windows, in order
WindowTimestamps(windows) ==
    [k \in 1..Len(windows) |->
        [j \in 1..Len(windows[k].rows) |-> windows[k].rows[j].timestamp]]

\* every row order of the series d
RowOrders(d) ==
    {s \in [1..Len(d) -> {d[i] : i \in 1..Len(d)}] :
        \A r \in {d[i] : i \in 1..Len(d)} : Occurrences(s, r) = Occurrences(d, r)}

\* C22: extract_windows sorts internally: the series in any row order
\* yields windows of the same timestamps in the same order (and ends the
\* same way) as the same rows given in timestamp order, so any two row
\* orders yield the same; and no step of the extraction changes the
\* caller's series.
C22_RowOrderIrrelevant ==
    [][/\ df' = df
       /\ wpc' \in {"done", "error"} =>
             \A d \in {s \in RowOrders(df') : IsSortedByTimestamp(s)} :
                 \A o \in ListExtractWindows(d, cfg') :
                     /\ (o.status = "ok") = (wpc' = "done")
                     /\ WindowTimestamps(o.windows) = WindowTimestamps(out')]_vars

\* a finished extraction that yielded windows from a series given out of order
C22_Witness ==
    /\ wpc = "done"
    /\ ~IsSortedByTimestamp(df)
    /\ Len(out) >= 2
    /\ sdf # df

(***************************************************************************)
(* Properties of the projection model life cycle (SpecModel)               *)
(***************************************************************************)

\* the errors by which embed_vector reports a model that was never fitted:
\* its own ValueError and scikit-learn's NotFittedError
NotTrainedStatuses == {"ModelNotTrained", "NotFitted"}

\* C6: with projection enabled, embed_vector on a valid raw vector reports
\* "model not trained" as long as no train_pca / load_pca_model call has
\* succeeded, and succeeds once one has; with projection disabled it returns
\* the input unchanged.
C6_EmbedStateMachine ==
    \A e \in Embedders, v \in ValidRawVectors :
        LET r == EmbedResult(use_pca[e], pca_model[e], v)
        IN  /\ (use_pca[e] /\ ~trained_ok[e]) => r.status \in NotTrainedStatuses
            /\ (use_pca[e] /\ trained_ok[e]) => r.status = "ok"
            /\ ~use_pca[e] => (r.status = "ok" /\ r.value = v)

\* C7: an embed_vector argument, or a train_pca matrix, whose row length is
\* not 600 is rejected with the dimension error whatever the embedder's
\* state and projection mode, and that call leaves model, flag and index
\* as they were.
C7_DimensionMismatchRejected ==
    [][/\ (ret'.op = "embed" /\ ret'.arg.len # RAW_DIM) =>
            /\ ret'.status = "DimensionMismatch"
            /\ UNCHANGED <<pca_model, use_pca, vectors, trained_ok>>
       /\ (ret'.op = "train" /\ ret'.arg.row_len # RAW_DIM) =>
            /\ ret'.status = "DimensionMismatch"
            /\ UNCHANGED <<pca_model, use_pca, vectors, trained_ok>>]_vars

\* a short training matrix rejected by an embedder that holds a fitted model
C7_Witness ==
    /\ ret.op = "train"
    /\ ret.arg.row_len # RAW_DIM
    /\ ret.status = "DimensionMismatch"
    /\ pca_model[ret.e].kind = "PCA"
    /\ pca_model[ret.e].fitted

\* C8: embed_vector never returns a raw vector of length 600 that holds a
\* NaN or an infinite element: every such call ends in an error.
C8_NonFiniteRejected ==
    (ret.op = "embed" /\ ret.arg.len = RAW_DIM /\ (ret.arg.nan \/ ret.arg.inf))
    => ret.status # "ok"

\* the state right after an embedder's successful load of a file that
\* another embedder saved its fitted model to
LoadedSavedModel ==
    /\ ret.op = "load"
    /\ ret.status = "ok"
    /\ saved[ret.arg].by # ret.e
    /\ saved[ret.arg].model.kind = "PCA"
    /\ saved[ret.arg].model.fitted

\* C9 as stated: after load_pca_model of what a trained embedder saved, the
\* loaded model equals the saved one and the loader embeds every valid raw
\* vector to what the saver did when it saved.
C9_RoundTripAnySaver ==
    LoadedSavedModel =>
        /\ pca_model[ret.e] = saved[ret.arg].model
        /\ \A v \in ValidRawVectors :
              EmbedResult(use_pca[ret.e], pca_model[ret.e], v)
              = EmbedResult(saved[ret.arg].use_pca, saved[ret.arg].model, v)

\* C9 amended: the loaded model equals the saved one, and the two embedders
\* agree on every valid raw vector when the saver had projection enabled.
C9_RoundTrip ==
    LoadedSavedModel =>
        /\ pca_model[ret.e] = saved[ret.arg].model
        /\ saved[ret.arg].use_pca =>
              \A v \in ValidRawVectors :
                  EmbedResult(use_pca[ret.e], pca_model[ret.e], v)
                  = EmbedResult(saved[ret.arg].use_pca, saved[ret.arg].model, v)

\* a loader constructed with other arguments than the model it loads
C9_Witness ==
    /\ LoadedSavedModel
    /\ saved[ret.arg].use_pca
    /\ saved[ret.arg].model.mean # <<0, 0>>
    /\ saved[ret.arg].model.n_components # n_components[ret.e]
    /\ \A v \in ValidRawVectors :
          EmbedResult(use_pca[ret.e], pca_model[ret.e], v).status = "ok"

\* C17: a train_pca or load_pca_model call that fails (a row length other
\* than 600, fewer samples than n_components, a missing or unreadable file)
\* reports an error and leaves pca_model and the projection flag exactly as
\* they were before the call.
C17_FailedReplacementKeepsModel ==
    [][(ret'.op \in {"train", "load"} /\ ret'.status # "ok")
       => UNCHANGED <<pca_model, use_pca>>]_vars

\* C18: get_vector_dimension returns n_components when projection is
\* enabled and 600 otherwise, and in every reachable state it is the length
\* of the vector a successful embed_vector returns.
C18_DimensionMatchesEmbedding ==
    \A e \in Embedders :
        /\ get_vector_dimension(e) = IF use_pca[e] THEN n_components[e] ELSE RAW_DIM
        /\ \A v \in ValidRawVectors :
              LET r == EmbedResult(use_pca[e], pca_model[e], v)
              IN  r.status = "ok" => r.value.len = get_vector_dimension(e)

(***************************************************************************)
(* Properties of the index (SpecIndex)                                     *)
(***************************************************************************)

ZeroSimilarity == [num |-> 0, den2 |-> 1]
OneMinusEpsilon == [num |-> 999, den2 |-> 1000000]

IsZeroVector(v) == SumSq(v.vals) = 0
SameLengthAsStored(e, v) == \A i \in 1..Len(vectors[e]) : vectors[e][i].vector.len = v.len

\* the similarity search_similar gives the stored entry i for the query v
StoredSimilarity(e, v, i) == Dot(Normalize(v), vectors[e][i].vector)

\* entries stored before the last one that score at least 1 - epsilon for v
ParallelEarlier(e, v) ==
    {i \in 1..(Len(vectors[e]) - 1) : SimGE(StoredSimilarity(e, v, i), OneMinusEpsilon)}

\* the entries of greatest similarity to v
BestEntries(e, v) ==
    {i \in 1..Len(vectors[e]) :
        \A j \in 1..Len(vectors[e]) :
            SimGE(StoredSimilarity(e, v, i), StoredSimilarity(e, v, j))}

\* C10 as stated: right after insert_vector(V, id, t, w), in any index
\* state, search_similar(V, 1, 0) returns one result, of stock_code id and
\* similarity >= 1 - epsilon.
C10_InsertThenSearchAny ==
    ret.op = "insert" =>
        LET r == SearchResult(vectors[ret.e], ret.arg.vector, 1, ZeroSimilarity)
        IN  /\ r.status = "ok"
            /\ Len(r.value) = 1
            /\ r.value[1].stock_code = ret.arg.stock_code
            /\ SimGE(r.value[1].similarity, OneMinusEpsilon)

\* C10 amended: for a nonzero V of the length of every stored vector the
\* search returns one result, of similarity >= 1 - epsilon: the entry of
\* greatest similarity, the earliest inserted on a tie.  It carries id
\* unless an earlier entry also scores >= 1 - epsilon for V.
C10_InsertThenSearch ==
    (/\ ret.op = "insert"
     /\ ~IsZeroVector(ret.arg.vector)
     /\ SameLengthAsStored(ret.e, ret.arg.vector))
    => LET r == SearchResult(vectors[ret.e], ret.arg.vector, 1, ZeroSimilarity)
           best == BestEntries(ret.e, ret.arg.vector)
       IN  /\ r.status = "ok"
           /\ Len(r.value) = 1
           /\ SimGE(r.value[1].similarity, OneMinusEpsilon)
           /\ \E i \in best :
                /\ \A j \in best : i <= j
                /\ r.value[1].stock_code = vectors[ret.e][i].stock_code
                /\ r.value[1].similarity = StoredSimilarity(ret.e, ret.arg.vector, i)
           /\ ParallelEarlier(ret.e, ret.arg.vector) = {} =>
                r.value[1].stock_code = ret.arg.stock_code

\* the new entry outranks an earlier entry of another stock
C10_Witness ==
    /\ ret.op = "insert"
    /\ Len(vectors[ret.e]) = 2
    /\ ~IsZeroVector(ret.arg.vector)
    /\ ~IsZeroVector(vectors[ret.e][1].vector)
    /\ vectors[ret.e][1].stock_code # ret.arg.stock_code
    /\ ParallelEarlier(ret.e, ret.arg.vector) = {}
    /\ LET r == SearchResult(vectors[ret.e], ret.arg.vector, 1, ZeroSimilarity)
       IN  r.status = "ok" /\ Len(r.value) = 1
           /\ r.value[1].stock_code = ret.arg.stock_code

\* the stored entries whose similarity to the query v is >= m
Eligible(e, v, m) ==
    {i \in 1..Len(vectors[e]) : SimGE(StoredSimilarity(e, v, i), m)}

\* result r reports the stored entry i as scored against the query v
ReportsEntry(e, v, r, i) ==
    /\ r.stock_code = vectors[e][i].stock_code
    /\ r.timestamp = vectors[e][i].timestamp
    /\ r.window_size = vectors[e][i].window_size
    /\ r.similarity = StoredSimilarity(e, v, i)

\* the ways to read the results as distinct eligible stored entries
Attributions(e, v, m, value) ==
    {f \in [1..Len(value) -> Eligible(e, v, m)] :
        /\ \A a, b \in 1..Len(value) : f[a] = f[b] => a = b
        /\ \A a \in 1..Len(value) : ReportsEntry(e, v, value[a], f[a])}

\* the size and content contract of one search that returned
SearchContract(e, v, k, m) ==
    LET value == SearchResult(vectors[e], v, k, m).value
        E == Cardinality(Eligible(e, v, m))
    IN  /\ Len(value) <= Max(k, 0)
        /\ k >= 0 => Len(value) = Min(k, E)
        /\ \A a \in 1..Len(value) : SimGE(value[a].similarity, m)
        /\ \E f \in Attributions(e, v, m, value) :
              \A i \in Eligible(e, v, m) \ {f[a] : a \in 1..Len(value)} :
                  \A a \in 1..Len(value) :
                      ~SimGT(StoredSimilarity(e, v, i), value[a].similarity)

\* C11: for every index state, query, min_similarity and integer top_k a
\* search that returns gives at most max(top_k, 0) results, and for
\* top_k >= 0 exactly min(top_k, E) of them, E counting the stored entries
\* of similarity >= min_similarity; every result has similarity >=
\* min_similarity and is a distinct stored entry, and no eligible entry
\* left out has a strictly greater similarity than a returned one.
C11_SearchContract ==
    \A e \in IndexEmbedders, v \in IndexVectors, k \in TopKs, m \in MinSimilarities :
        SearchResult(vectors[e], v, k, m).status = "ok" => SearchContract(e, v, k, m)

SimEQ(a, b) == SimGE(a, b) /\ SimGE(b, a)

\* the states in which the constructor, insert_vector or clear_vectors has
\* just set the index: search_similar leaves the index as it is, so these
\* states show every index a search can run on
IndexJustSet == ret.op \in {"none", "insert", "clear"}

\* C12: the results of a search that returns are in non-increasing order of
\* similarity, and results of equal similarity are in the order in which
\* their entries were inserted.
C12_ResultOrder ==
    \A e \in IndexEmbedders, v \in IndexVectors, k \in TopKs, m \in MinSimilarities :
        LET r == SearchResult(vectors[e], v, k, m)
        IN  (IndexJustSet /\ r.status = "ok") =>
              /\ \A a \in 1..(Len(r.value) - 1) :
                    SimGE(r.value[a].similarity, r.value[a + 1].similarity)
              /\ \E f \in Attributions(e, v, m, r.value) :
                    \A a, b \in 1..Len(r.value) :
                        (a < b /\ SimEQ(r.value[a].similarity, r.value[b].similarity))
                        => f[a] < f[b]

\* a search returned two results of equal similarity for entries of two
\* stocks, and another whose two results differ in similarity
C12_Witness ==
    /\ ret.op = "search"
    /\ ret.status = "ok"
    /\ Len(ret.value) = 2
    /\ SimEQ(ret.value[1].similarity, ret.value[2].similarity)
    /\ ret.value[1].stock_code # ret.value[2].stock_code
    /\ \E v \in QueryVectors :
          LET r == SearchResult(vectors[ret.e], v, 2, ZeroSimilarity)
          IN  /\ r.status = "ok"
              /\ Len(r.value) = 2
              /\ SimGT(r.value[1].similarity, r.value[2].similarity)

\* thresholds in ascending order: below, between and above the similarities
\* that occur
Thresholds ==
    <<[num |-> -1, den2 |-> 2], [num |-> 0, den2 |-> 1], [num |-> 1, den2 |-> 4],
      [num |-> 1, den2 |-> 2], [num |-> 2, den2 |-> 1]>>

\* the outcome of one search per threshold
SearchPerThreshold(e, v, k) ==
    <<SearchResult(vectors[e], v, k, Thresholds[1]),
      SearchResult(vectors[e], v, k, Thresholds[2]),
      SearchResult(vectors[e], v, k, Thresholds[3]),
      SearchResult(vectors[e], v, k, Thresholds[4]),
      SearchResult(vectors[e], v, k, Thresholds[5])>>

\* C13: for a fixed index state, query and top_k, a search with the
\* threshold m2 returns no more results than one with a threshold m1 <= m2.
C13_ThresholdMonotone ==
    \A e \in IndexEmbedders, v \in QueryVectors, k \in TopKs :
        LET r == SearchPerThreshold(e, v, k)
        IN  \A i, j \in 1..Len(Thresholds) :
                (IndexJustSet /\ SimGE(Thresholds[j], Thresholds[i])) =>
                    /\ r[i].status = r[j].status
                    /\ Len(r[j].value) <= Len(r[i].value)

\* a search that returned one result where the lower threshold gives two
C13_Witness ==
    /\ ret.op = "search"
    /\ ret.status = "ok"
    /\ SimGT(ret.arg.min_similarity, ZeroSimilarity)
    /\ Len(ret.value) = 1
    /\ Len(SearchResult(vectors[ret.e], ret.arg.query, ret.arg.top_k, ZeroSimilarity).value) = 2

\* C14: the index holds exactly one entry per insert_vector call made since
\* the last clear_vectors (or since construction), in insertion order and
\* without deduplication: get_vector_count is the number of those calls and
\* the i-th entry is the normalized vector and the metadata of the i-th
\* call, so an insert appends one entry and leaves the earlier ones as they
\* were; right after clear_vectors the count is 0 and every search returns
\* the empty list.
C14_OneEntryPerInsert ==
    \A e \in IndexEmbedders :
        /\ get_vector_count(e) = Len(inserts[e])
        /\ \A i \in 1..Len(inserts[e]) :
              vectors[e][i] = Entry(inserts[e][i].vector, inserts[e][i].stock_code,
                                    inserts[e][i].timestamp, inserts[e][i].window_size)
        /\ (ret.op = "clear" /\ ret.e = e) =>
              /\ get_vector_count(e) = 0
              /\ \A v \in IndexVectors, k \in TopKs, m \in MinSimilarities :
                    SearchResult(vectors[e], v, k, m) = [status |-> "ok", value |-> <<>>]

\* the same vector and metadata inserted twice: two equal entries
C14_Witness ==
    /\ ret.op = "insert"
    /\ get_vector_count(ret.e) = 2
    /\ vectors[ret.e][1] = vectors[ret.e][2]
    /\ inserts[ret.e][1] = inserts[ret.e][2]

(***************************************************************************)
(* Properties of extract_windows_per_stock (SpecStock)                     *)
(***************************************************************************)

\* the keys of the returned dict
ReturnedCodes == {windows_by_stock[k].stock_code : k \in 1..Len(windows_by_stock)}

\* what extract_windows yields for the rows of one stock alone
WindowsOfStock(stock_code) ==
    {o.windows : o \in ListExtractWindows(Filter(df, stock_code), cfg)}

\* C15: the dict extract_windows_per_stock returns maps each stock code to
\* exactly the list of windows extract_windows yields for that stock's rows
\* alone, has no key for a stock code that yields zero windows, and every
\* window in it holds rows of a single stock code.
C15_PerStockWindows ==
    spc = "done" =>
        /\ \A k \in 1..Len(windows_by_stock) :
              LET item == windows_by_stock[k]
              IN  /\ item.windows \in WindowsOfStock(item.stock_code)
                  /\ item.windows # <<>>
                  /\ \A j \in 1..Len(windows_by_stock) :
                        windows_by_stock[j].stock_code = item.stock_code => j = k
                  /\ \A w \in 1..Len(item.windows) :
                        \A r \in 1..Len(item.windows[w].rows) :
                            item.windows[w].rows[r].stock_code = item.stock_code
        /\ \A stock_code \in StockCodes :
              stock_code \in ReturnedCodes <=> WindowsOfStock(stock_code) # {<<>>}

\* rows of two stocks interleaved; one stock is returned with a window over
\* its two rows, the other yields nothing and has no key
C15_Witness ==
    /\ spc = "done"
    /\ cfg.size = 2
    /\ Len(df) = 3
    /\ df[1].stock_code # df[2].stock_code
    /\ df[3].stock_code = df[1].stock_code
    /\ Len(windows_by_stock) = 1
    /\ windows_by_stock[1].stock_code = df[1].stock_code

\* index of the first row of a stock in the series (0 when it has none)
FirstRow(d, stock_code) ==
    IF \E i \in 1..Len(d) : d[i].stock_code = stock_code
    THEN CHOOSE i \in 1..Len(d) :
             /\ d[i].stock_code = stock_code
             /\ \A j \in 1..(i - 1) : d[j].stock_code # stock_code
    ELSE 0

\* C23: the keys of the dict extract_windows_per_stock returns come in
\* first-seen order of the input series: when stock A's first row precedes
\* stock B's first row and both have windows, A's key precedes B's key.
C23_FirstSeenKeyOrder ==
    spc = "done" =>
        \A j, k \in 1..Len(windows_by_stock) :
            FirstRow(df, windows_by_stock[j].stock_code)
              < FirstRow(df, windows_by_stock[k].stock_code) => j < k

(***************************************************************************)
(* Properties of concurrent search and insert (SpecConc)                   *)
(***************************************************************************)

\* C20: while insert_vector calls run on other threads, every entry a
\* search_similar call observes is the complete tuple (normalized vector,
\* stock_code, timestamp, window_size) of one insert_vector call, and every
\* result it collects or returns carries the metadata of the insert whose
\* vector it was scored against.
C20_NoTornEntry ==
    search_frame.pc \in {"loop", "sort", "done"} =>
        LET f == search_frame
            FromObserved(r) ==
                \E j \in 1..Len(f.observed) :
                    /\ r.stock_code = f.observed[j].stock_code
                    /\ r.timestamp = f.observed[j].timestamp
                    /\ r.window_size = f.observed[j].window_size
                    /\ r.similarity = Dot(f.query_vector, f.observed[j].vector)
        IN  /\ Len(f.observed) <= Len(inserts[f.e])
            /\ \A j \in 1..Len(f.observed) :
                  f.observed[j] = Entry(inserts[f.e][j].vector, inserts[f.e][j].stock_code,
                                        inserts[f.e][j].timestamp,
                                        inserts[f.e][j].window_size)
            /\ \A k \in 1..Len(f.similarities) : FromObserved(f.similarities[k])
            /\ \A k \in 1..Len(f.result) : FromObserved(f.result[k])

\* a search that found one entry at its length check returned two results:
\* the second was appended by another thread while the loop ran
C20_Witness ==
    /\ search_frame.pc = "done"
    /\ search_frame.len_at_check = 1
    /\ Len(search_frame.observed) = 2
    /\ Len(search_frame.result) = 2
    /\ search_frame.observed[1].stock_code # search_frame.observed[2].stock_code
    /\ search_frame.observed[1].vector # search_frame.observed[2].vector

(***************************************************************************)
(* Properties of concurrent embedding and model replacement (SpecSwap)     *)
(***************************************************************************)

\* C21: an embed_vector call interleaved with train_pca or load_pca_model
\* answers from the model state in force before the replacement or from
\* the fully fitted new model with its projection flag, never from a state
\* in between such as an assigned but unfitted model.
C21_AtomicModelSwap ==
    (embed_frame.pc = "done" /\ embed_frame.raw_vector \in ValidRawVectors) =>
        \E s \in embed_frame.settled :
            LET r == EmbedResult(s.flag, s.model, embed_frame.raw_vector)
            IN  embed_frame.status = r.status /\ embed_frame.value = r.value

(***************************************************************************)
(* Properties of the rate limiter (SpecLimiter, SpecLimiterFair)           *)
(***************************************************************************)

LimiterQueries == {"try_request", "can_make_request", "calculate_wait_time"}

\* C25: try_request, can_make_request and calculate_wait_time leave the
\* recent_requests of the limiter they are called on as it was before the
\* call, in every state and at every clock value.
C25_ReceiverUnchanged ==
    result.op \in LimiterQueries => result.receiver = result.before

\* C26: whenever try_request returns Denied, its wait_time_ms is strictly
\* positive.
C26_DeniedWaitPositive ==
    (result.op = "try_request" /\ result.kind = "Denied") => result.wait_time_ms > 0

C27_OneRowPerKey ==
    \A y \in Years :
        /\ \A i, j \in 1..Len(parquet[y].rows) :
              Key(parquet[y].rows[i]) = Key(parquet[y].rows[j]) => i = j
        /\ Len(parquet[y].rows) = Cardinality(exported[y])

(***************************************************************************)
(* Properties of the embedder as a whole (SpecEmbedder)                    *)
(***************************************************************************)

\* C28: in every reachable state all stored vectors have the length
\* get_vector_dimension() reports, so search_similar with a query that
\* embed_vector produces never fails on a length mismatch.
C28_IndexDimension ==
    \A e \in IndexEmbedders :
        /\ \A i \in 1..Len(vectors[e]) :
              vectors[e][i].vector.len = get_vector_dimension(e)
        /\ \A q \in Embeddings(e), m \in MinSimilarities :
              SearchResult(vectors[e], q, MaxTopK, m).status # "ShapeMismatch"

\* the calls that read only, and what a call may leave of the index
ReadOnlyCalls == {"embed", "search", "count", "dimension", "save"}
ModelUnchanged ==
    pca_model' = pca_model /\ use_pca' = use_pca /\ n_components' = n_components
IndexUnchanged == vectors' = vectors /\ inserts' = inserts

\* every stored entry is found by the same searches as before the call
StillSearchable ==
    \A e \in IndexEmbedders, m \in MinSimilarities :
        \A i \in 1..Len(vectors[e]) :
            SearchResult(vectors'[e], vectors[e][i].vector, MaxTopK, m)
            = SearchResult(vectors[e], vectors[e][i].vector, MaxTopK, m)

\* C29: embed_vector, search_similar, get_vector_count, get_vector_dimension
\* and save_pca_model change neither the index nor the model nor the
\* projection flag; train_pca and load_pca_model leave the index as it
\* was (its entries are stored and found by the same searches as before);
\* insert_vector and clear_vectors leave the model and the flag as they were.
C29_FrameConditions ==
    [][/\ ret'.op \in ReadOnlyCalls => (IndexUnchanged /\ ModelUnchanged)
       /\ ret'.op \in {"train", "load"} => (IndexUnchanged /\ StillSearchable)
       /\ ret'.op \in {"insert", "clear"} => ModelUnchanged]_vars

\* a model was loaded into an embedder whose index holds an entry
C29_Witness ==
    /\ ret.op = "load"
    /\ ret.status = "ok"
    /\ Len(vectors[1]) >= 1
    /\ pca_model[1].kind = "PCA"
    /\ use_pca[1]

====
